---- MODULE Spec2Model ----
(***************************************************************************)
(* Korean PDF converter: the editor's undo/redo history                    *)
(* (js/editor/editor-manager.js), the font loader (js/pdf/font-loader.js)  *)
(* the PDF generator's generate call (js/pdf/pdf-generator.js), the table   *)
(* preprocessor of parseMarkdown, the template engine                      *)
(* (js/pdf/template-engine.js), the paste handler                          *)
(* (js/editor/paste-handler.js) and the debounced preview.                 *)
(*                                                                         *)
(* The browser runs one task at a time: an event handler or a timer        *)
(* callback runs to completion, then every queued promise continuation     *)
(* (microtask) runs, and only then the next event or timer.  Every action  *)
(* below is one such run-to-completion step.  Timers expire                *)
(* nondeterministically, except that a 10 ms timer armed before a 500 ms   *)
(* timer always expires first.                                             *)
(***************************************************************************)
EXTENDS Integers, Sequences, FiniteSets, TLC

VARIABLES
  \* ---- EditorManager ----
  content,            \* textarea.value
  history,            \* this.history: sequence of entries (JS index i is history[i+1])
  historyIndex,       \* this.historyIndex
  isHandlingHistory,  \* this.isHandlingHistory
  isModified,         \* this.isModified
  snapPending,        \* arguments held by the pending saveHistoryDebounced timer: <<>> or <<c>>
  cooldowns,          \* number of pending 10 ms timers armed by applyHistoryState
  cooldownsAhead,     \* how many of them were armed before the pending snapshot timer
  \* ---- FontLoader ----
  loadedFonts,        \* this.loadedFonts: the fonts that have cached data
  loadingPromises,    \* this.loadingPromises: font -> the fetch it waits on (0: no entry)
  fetches,            \* every fetchAndCacheFont run so far: font, state, awaiting callers
  calls,              \* per caller: its loadFont / preloadFonts call and how it ended
  docFonts,           \* per caller: the fonts registered in the jsPDF document it passed
  microtasks,         \* promise continuations that are ready, in the order they will run
  \* ---- PDFGenerator (the one instance the application holds) ----
  doc,                \* this.doc: the id of the jsPDF document (0: null)
  currentTemplate,    \* this.currentTemplate: the name of the template
  yPosition,          \* this.yPosition, in 1/100 pt
  pageNumber,         \* this.pageNumber
  pageSettings,       \* this.pageSettings, as far as page numbers go
  exports,            \* per generate call: its arguments, where it stands, what it returned
  docs,               \* the jsPDF documents: page count, text drawn, page numbers stamped
  \* ---- markdown on its way to marked.parse ----
  mdSource,           \* the editor content as lines of characters (<<>>: nothing typed yet)
  previewMarkup,      \* what updatePreview handed to marked.parse
  exportMarkup,       \* what generate handed to marked.parse
  \* ---- TemplateEngine ----
  tplCurrent,         \* this.currentTemplate: the name of the template
  customizations,     \* this.customizations: option key -> value
  colorOverrides,     \* the colour overrides passed to customizeTemplate since the
                      \* last reset, the latest per key (history, not program state)
  \* ---- PasteHandler and the textarea it was given ----
  turndownService,    \* this.turndownService is not null
  pasteValue,         \* editorElement.value, a sequence of characters
  selectionStart,     \* editorElement.selectionStart
  selectionEnd,       \* editorElement.selectionEnd
  lastPaste,          \* the latest paste event: its payloads and what became of it
  \* ---- the debounced preview, on a clock ----
  now,                \* the time, in units of 100 ms
  pvValue,            \* textarea.value, as lines of characters
  pvShown,            \* what updatePreview last put into the preview pane
  pvTimers,           \* the pending timers armed by updatePreviewDebounced: id and due time
  timeoutId,          \* timeoutId in the closure of updatePreviewDebounced (0: undefined)
  timerSeq,           \* the id the latest setTimeout call returned
  previewLog,         \* the input events and the debounced renders so far, in order
  \* ---- StorageManager: localStorage under the key kpdf_documents ----
  store,              \* the stored array of documents, as getAllDocuments returns it
  stAdded,            \* the ids now stored, in the order they were added (history)
  stIds,              \* the number of ids stored so far (ids are 1, 2, ...)     
  stDeletes,          \* the number of deleteDocument calls so far
  stLast,             \* the latest StorageManager call: operation, id and what it returned
  \* ---- EditorManager: the open document and auto-save ----
  svValue,            \* textarea.value
  currentDocument,    \* this.currentDocument
  svIsModified,       \* this.isModified
  svClock,            \* the time since the auto-save interval last fired, in units of 10 s
  lastSaveKind,       \* what made the latest saveDocument call: "manual" or "auto" (history)
  \* ---- updatePreview and its enhancements ----
  libraries,          \* the optional scripts the page has loaded
  enhShown,           \* what preview.innerHTML holds
  enhRan,             \* the enhancements that ran to their end in the latest render
  enhFailing,         \* the enhancements that throw when run (the environment's choice)
  \* ---- saveHistoryState on a history of entries that differ ----
  hsHistory,          \* this.history
  hsIndex,            \* this.historyIndex
  hsCall,             \* the latest saveHistoryState call: its argument, the history before
  \* ---- the history across loadDocument and newDocument ----
  dhContent,          \* textarea.value
  dhHistory,          \* this.history
  dhIndex,            \* this.historyIndex
  dhHandling,         \* this.isHandlingHistory
  dhPending,          \* arguments held by the pending saveHistoryDebounced timer
  dhCooldowns,        \* pending 10 ms timers armed by applyHistoryState
  dhAhead,            \* how many of them were armed before the pending snapshot timer
  dhStale,            \* how many leading entries of the history were recorded before
                      \* the content was last replaced (history)
  dhRestore,          \* the latest undo or redo that restored: was its entry a stale one
  \* ---- a list rendered into the PDF ----
  lsPc,               \* how far renderContent has come: "idle", "started", "para", "list"
  lsTemplate,         \* this.currentTemplate (its name)
  lsLayout,           \* this.yPosition, this.pageNumber and this.doc
  lsList,             \* the <ul> or <ol> element that was rendered
  \* ---- the modal manager ----
  modals,             \* this.modals: for each id the element registered, 0 for none
  activeModal,        \* this.activeModal, "null" for null
  mmAttached,         \* the modal elements in document.body, each with the id it was
                      \* created for and whether it has the class 'active'
  mmClosing,          \* the pending 200 ms timers of close, in the order they were armed
  mmActivating,       \* the elements whose 10 ms timer of show is pending
  mmKeyHandlers,      \* for each id, the keydown listeners setupKeyHandler has added
  mmCreated,          \* how many modal elements createModal has made (history)
  \* ---- the checkboxes of the preview ----
  cbValue,            \* textarea.value, as its characters
  cbModified,         \* this.isModified
  cbPending,          \* the value held by the pending saveHistoryDebounced timer
  cbCall              \* the latest toggleCheckboxInMarkdown call: its arguments and the
                      \* value before it (history)

editorVars == <<content, history, historyIndex, isHandlingHistory, isModified,
                snapPending, cooldowns, cooldownsAhead>>

fontVars == <<loadedFonts, loadingPromises, fetches, calls, docFonts, microtasks>>

genVars == <<doc, currentTemplate, yPosition, pageNumber, pageSettings, exports, docs>>

mdVars == <<mdSource, previewMarkup, exportMarkup>>

\* the variables of the parts of the program added after the first three
tplVars == <<tplCurrent, customizations, colorOverrides>>

pasteVars == <<turndownService, pasteValue, selectionStart, selectionEnd, lastPaste>>

pvVars == <<now, pvValue, pvShown, pvTimers, timeoutId, timerSeq, previewLog>>

stVars == <<store, stAdded, stIds, stDeletes, stLast>>

svVars == <<svValue, currentDocument, svIsModified, svClock, lastSaveKind>>

enhVars == <<libraries, enhShown, enhRan, enhFailing>>

hsVars == <<hsHistory, hsIndex, hsCall>>

dhVars == <<dhContent, dhHistory, dhIndex, dhHandling, dhPending, dhCooldowns,
            dhAhead, dhStale, dhRestore>>

lsVars == <<lsPc, lsTemplate, lsLayout, lsList>>

mmVars == <<modals, activeModal, mmAttached, mmClosing, mmActivating, mmKeyHandlers,
            mmCreated>>

cbVars == <<cbValue, cbModified, cbPending, cbCall>>

\* the variable groups added last, and for each of them the others
lateVars == <<stVars, svVars, enhVars, hsVars, dhVars, lsVars, mmVars, cbVars>>

notSt == <<svVars, enhVars, hsVars, dhVars, lsVars, mmVars, cbVars>>

notSv == <<stVars, enhVars, hsVars, dhVars, lsVars, mmVars, cbVars>>

notEnh == <<stVars, svVars, hsVars, dhVars, lsVars, mmVars, cbVars>>

notHs == <<stVars, svVars, enhVars, dhVars, lsVars, mmVars, cbVars>>

notDh == <<stVars, svVars, enhVars, hsVars, lsVars, mmVars, cbVars>>

notLs == <<stVars, svVars, enhVars, hsVars, dhVars, mmVars, cbVars>>

notMm == <<stVars, svVars, enhVars, hsVars, dhVars, lsVars, cbVars>>

notCb == <<stVars, svVars, enhVars, hsVars, dhVars, lsVars, mmVars>>

notStSv == <<enhVars, hsVars, dhVars, lsVars, mmVars, cbVars>>

extVars == <<mdVars, tplVars, pasteVars, pvVars, lateVars>>

\* every group but the late ones
earlyVars == <<editorVars, fontVars, genVars, mdVars, tplVars, pasteVars, pvVars>>

vars == <<editorVars, fontVars, genVars, extVars>>

\* nothing has been handed to marked.parse
NoMarkup == [path |-> "none", lines |-> <<>>]

InitMd ==
  /\ mdSource = <<>>
  /\ previewMarkup = NoMarkup
  /\ exportMarkup = NoMarkup

\* an object without own properties
EmptyObject == [k \in {} |-> 0]

\* after init: loadTemplates has set the clean template
InitTpl ==
  /\ tplCurrent = "clean"
  /\ customizations = EmptyObject
  /\ colorOverrides = EmptyObject

\* no paste event yet
NoPaste == [seen |-> FALSE]

\* the page was loaded without the turndown script: the constructor left
\* this.turndownService null
InitPaste ==
  /\ turndownService = FALSE
  /\ pasteValue = <<>>
  /\ selectionStart = 0
  /\ selectionEnd = 0
  /\ lastPaste = NoPaste

\* the editor is empty, the preview shows its placeholder, no timer is armed
InitPv ==
  /\ now = 0
  /\ pvValue = << <<>> >>
  /\ pvShown = [path |-> "placeholder", lines |-> <<>>]
  /\ pvTimers = {}
  /\ timeoutId = 0
  /\ timerSeq = 0
  /\ previewLog = <<>>

\* no StorageManager call yet
NoStorageCall == [op |-> "none", id |-> 0, ok |-> FALSE]

\* localStorage holds no documents
InitSt ==
  /\ store = <<>>
  /\ stAdded = <<>>
  /\ stIds = 0
  /\ stDeletes = 0
  /\ stLast = NoStorageCall

\* this.currentDocument = null
NoDocument == [id |-> 0, content |-> ""]

\* the editor after init with nothing stored, as far as saving goes (the
\* default content is shown)
InitSv ==
  /\ svValue = "welcome"
  /\ currentDocument = NoDocument
  /\ svIsModified = FALSE
  /\ svClock = 0
  /\ lastSaveKind = "none"

\* the page has loaded none of the optional scripts; the preview shows its
\* placeholder
InitEnh ==
  /\ libraries = {}
  /\ enhShown = "placeholder"
  /\ enhRan = {}
  /\ enhFailing = {}

\* no saveHistoryState call yet
NoCall25 == [made |-> FALSE]

\* the history of a new editor
InitHs ==
  /\ hsHistory = <<>>
  /\ hsIndex = -1
  /\ hsCall = NoCall25

\* no undo or redo has restored anything
NoRestore == [made |-> FALSE, stale |-> FALSE]

\* a new editor with an empty textarea
InitDh ==
  /\ dhContent = ""
  /\ dhHistory = <<>>
  /\ dhIndex = -1
  /\ dhHandling = FALSE
  /\ dhPending = <<>>
  /\ dhCooldowns = 0
  /\ dhAhead = 0
  /\ dhStale = 0
  /\ dhRestore = NoRestore

\* no list element
NoList == [ordered |-> FALSE, items |-> <<>>]

\* nothing is being exported
InitLs ==
  /\ lsPc = "idle"
  /\ lsTemplate = "none"
  /\ lsLayout = [y |-> 0, pn |-> 1, ds |-> <<>>]
  /\ lsList = NoList

\* the ids modals are shown under
ModalIds == {"help", "documents-list"}

\* new ModalManager(): no modal
InitMm ==
  /\ modals = [id \in ModalIds |-> 0]
  /\ activeModal = "null"
  /\ mmAttached = {}
  /\ mmClosing = <<>>
  /\ mmActivating = {}
  /\ mmKeyHandlers = [id \in ModalIds |-> 0]
  /\ mmCreated = 0

\* no checkbox has been toggled
NoToggle == [made |-> FALSE, index |-> 0, checked |-> FALSE, before |-> <<>>]

\* a new editor with an empty textarea
InitCb ==
  /\ cbValue = <<>>
  /\ cbModified = FALSE
  /\ cbPending = <<>>
  /\ cbCall = NoToggle

InitLate == InitSt /\ InitSv /\ InitEnh /\ InitHs /\ InitDh /\ InitLs /\ InitMm /\ InitCb

InitExt == InitMd /\ InitTpl /\ InitPaste /\ InitPv /\ InitLate

(***************************************************************************)
(* EditorManager                                                           *)
(***************************************************************************)

\* the values the textarea takes in the model: the empty document and one text
EmptyContent == ""
Contents == {EmptyContent, "a"}

\* this.maxHistoryLength
maxHistoryLength == 50

\* pending applyHistoryState cooldown timers the model follows at once
MaxCooldowns == 2

\* the caret sits at the end of the text when an input event is handled
CaretOf(c) == IF c = EmptyContent THEN 0 ELSE 1

HistoryEntry(c, start, end) ==
  [content |-> c, selectionStart |-> start, selectionEnd |-> end]

\* saveHistoryState that keeps the entries after the cursor
saveHistoryStateNoPrune(h, i, c, start, end) ==
  IF Len(h) > 0 /\ h[Len(h)].content = c
    THEN [history |-> h, historyIndex |-> i]
    ELSE LET p == Append(h, HistoryEntry(c, start, end))
         IN  IF Len(p) > maxHistoryLength
               THEN [history |-> Tail(p), historyIndex |-> i]
               ELSE [history |-> p, historyIndex |-> i + 1]

\* saveHistoryState without the unchanged-content check
saveHistoryStateNoCoalesce(h, i, c, start, end) ==
  LET t == IF i < Len(h) - 1 THEN SubSeq(h, 1, i + 1) ELSE h
      p == Append(t, HistoryEntry(c, start, end))
  IN  IF Len(p) > maxHistoryLength
        THEN [history |-> Tail(p), historyIndex |-> i]
        ELSE [history |-> p, historyIndex |-> i + 1]

\* saveHistoryState that advances the cursor without evicting the oldest entry
saveHistoryStateNoEvict(h, i, c, start, end) ==
  LET t == IF i < Len(h) - 1 THEN SubSeq(h, 1, i + 1) ELSE h
  IN  IF Len(t) > 0 /\ t[Len(t)].content = c
        THEN [history |-> t, historyIndex |-> i]
        ELSE [history |-> Append(t, HistoryEntry(c, start, end)),
              historyIndex |-> i + 1]

\* saveHistoryState: the new history and historyIndex
saveHistoryState(h, i, c, start, end) ==
  LET t == IF i < Len(h) - 1 THEN SubSeq(h, 1, i + 1) ELSE h
  IN  IF Len(t) > 0 /\ t[Len(t)].content = c
        THEN [history |-> t, historyIndex |-> i]
        ELSE LET p == Append(t, HistoryEntry(c, start, end))
             IN  IF Len(p) > maxHistoryLength
                   THEN [history |-> Tail(p), historyIndex |-> i]
                   ELSE [history |-> p, historyIndex |-> i + 1]

\* undo that also moves at index 0
canUndoAtZero(h, i) == i >= 0

\* undo: its condition for moving the cursor
canUndo(h, i) == i > 0

\* redo: its condition for moving the cursor
canRedo(h, i) == i < Len(h) - 1

\* undo: the new historyIndex
undoIndex(h, i) == IF canUndo(h, i) THEN i - 1 ELSE i

\* redo: the new historyIndex
redoIndex(h, i) == IF canRedo(h, i) THEN i + 1 ELSE i

\* applyHistoryState: does it restore anything at index i
appliesState(h, i) == i >= 0 /\ i < Len(h)

\* applyHistoryState: the textarea value after it ran at index i
restoredContent(h, i, c) == IF appliesState(h, i) THEN h[i + 1].content ELSE c

\* the textarea value after undo()
contentAfterUndo(h, i, c) ==
  IF canUndo(h, i) THEN restoredContent(h, undoIndex(h, i), c) ELSE c

\* the textarea value after redo()
contentAfterRedo(h, i, c) ==
  IF canRedo(h, i) THEN restoredContent(h, redoIndex(h, i), c) ELSE c

InitEditor ==
  /\ content = EmptyContent
  /\ history = <<>>
  /\ historyIndex = -1
  /\ isHandlingHistory = FALSE
  /\ isModified = FALSE
  /\ snapPending = <<>>
  /\ cooldowns = 0
  /\ cooldownsAhead = 0

\* the textarea's input listener, after an edit that left the value c
Input(c) ==
  /\ content' = c
  /\ isModified' = TRUE
  /\ IF ~isHandlingHistory
       THEN /\ snapPending' = <<c>>
            /\ cooldownsAhead' = cooldowns
       ELSE UNCHANGED <<snapPending, cooldownsAhead>>
  /\ UNCHANGED <<history, historyIndex, isHandlingHistory, cooldowns>>
  /\ UNCHANGED <<fontVars, genVars, extVars>>

\* the 500 ms timer of saveHistoryDebounced expires and calls saveHistoryState
SnapshotTimerFires ==
  /\ snapPending # <<>>
  /\ cooldownsAhead = 0
  /\ LET c == snapPending[1]
         r == saveHistoryState(history, historyIndex, c, CaretOf(c), CaretOf(c))
     IN  /\ history' = r.history
         /\ historyIndex' = r.historyIndex
  /\ snapPending' = <<>>
  /\ UNCHANGED <<content, isHandlingHistory, isModified, cooldowns, cooldownsAhead>>
  /\ UNCHANGED <<fontVars, genVars, extVars>>

\* applyHistoryState at the (already moved) index i
applyHistoryState(i) ==
  IF appliesState(history, i)
    THEN /\ cooldowns < MaxCooldowns
         /\ isHandlingHistory' = TRUE
         /\ content' = restoredContent(history, i, content)
         /\ isModified' = TRUE
         /\ cooldowns' = cooldowns + 1
    ELSE UNCHANGED <<isHandlingHistory, content, isModified, cooldowns>>

Undo ==
  /\ IF canUndo(history, historyIndex)
       THEN /\ historyIndex' = undoIndex(history, historyIndex)
            /\ applyHistoryState(undoIndex(history, historyIndex))
       ELSE UNCHANGED <<historyIndex, isHandlingHistory, content, isModified, cooldowns>>
  /\ UNCHANGED <<history, snapPending, cooldownsAhead>>
  /\ UNCHANGED <<fontVars, genVars, extVars>>

Redo ==
  /\ IF canRedo(history, historyIndex)
       THEN /\ historyIndex' = redoIndex(history, historyIndex)
            /\ applyHistoryState(redoIndex(history, historyIndex))
       ELSE UNCHANGED <<historyIndex, isHandlingHistory, content, isModified, cooldowns>>
  /\ UNCHANGED <<history, snapPending, cooldownsAhead>>
  /\ UNCHANGED <<fontVars, genVars, extVars>>

\* the 10 ms timer armed by applyHistoryState expires (oldest first)
CooldownFires ==
  /\ cooldowns > 0
  /\ isHandlingHistory' = FALSE
  /\ cooldowns' = cooldowns - 1
  /\ cooldownsAhead' = IF cooldownsAhead > 0 THEN cooldownsAhead - 1 ELSE 0
  /\ UNCHANGED <<content, history, historyIndex, isModified, snapPending>>
  /\ UNCHANGED <<fontVars, genVars, extVars>>

\* loadDocument(document) with document.content = c
LoadDocument(c) ==
  /\ content' = c
  /\ isModified' = FALSE
  /\ UNCHANGED <<history, historyIndex, isHandlingHistory, snapPending,
                 cooldowns, cooldownsAhead>>
  /\ UNCHANGED <<fontVars, genVars, extVars>>

\* newDocument(); confirmed is the user's answer to window.confirm
NewDocument(confirmed) ==
  /\ IF isModified /\ ~confirmed
       THEN UNCHANGED <<content, isModified>>
       ELSE /\ content' = EmptyContent
            /\ isModified' = FALSE
  /\ UNCHANGED <<history, historyIndex, isHandlingHistory, snapPending,
                 cooldowns, cooldownsAhead>>
  /\ UNCHANGED <<fontVars, genVars, extVars>>

\* setContent(c)
SetContent(c) ==
  /\ content' = c
  /\ isModified' = TRUE
  /\ UNCHANGED <<history, historyIndex, isHandlingHistory, snapPending,
                 cooldowns, cooldownsAhead>>
  /\ UNCHANGED <<fontVars, genVars, extVars>>

(***************************************************************************)
(* FontLoader                                                              *)
(***************************************************************************)

\* the font families with an entry in this.fontPaths
Fonts == {"NanumGothic", "NanumMyeongjo"}

\* callers of the font loader the model follows
NumCallers == 2
Callers == 1 .. NumCallers

\* fetchAndCacheFont runs the model follows
MaxFetches == 2

NoCall == [op |-> "none", font |-> "none", fetch |-> 0, role |-> "idle", result |-> "none"]

InitFont ==
  /\ loadedFonts = {}
  /\ loadingPromises = [f \in Fonts |-> 0]
  /\ fetches = <<>>
  /\ calls = [c \in Callers |-> NoCall]
  /\ docFonts = [c \in Callers |-> {}]
  /\ microtasks = <<>>

\* loadFont: which of its three branches a call for font f takes
loadFontPath(lf, lp, f) ==
  IF f \in lf THEN "cached"
  ELSE IF lp[f] # 0 THEN "join"
  ELSE "fetch"

\* a new fetchAndCacheFont run for font f, awaited by caller c
NewFetch(f, c) == [font |-> f, state |-> "pending", awaiters |-> <<c>>]

\* loadFont(doc of c, f) up to its first await (or its return, when cached)
LoadFontSync(c, f) ==
  LET path == loadFontPath(loadedFonts, loadingPromises, f)
  IN  /\ calls[c].role = "idle"
      /\ path = "fetch" => Len(fetches) < MaxFetches
      /\ calls' = [calls EXCEPT ![c] =
           CASE path = "cached" ->
                  [op |-> "loadFont", font |-> f, fetch |-> 0,
                   role |-> "done", result |-> "true"]
             [] path = "join" ->
                  [op |-> "loadFont", font |-> f, fetch |-> loadingPromises[f],
                   role |-> "waiter", result |-> "none"]
             [] path = "fetch" ->
                  [op |-> "loadFont", font |-> f, fetch |-> Len(fetches) + 1,
                   role |-> "starter", result |-> "none"]]
      /\ docFonts' = IF path = "cached"
                       THEN [docFonts EXCEPT ![c] = {f}]
                       ELSE [docFonts EXCEPT ![c] = {}]
      /\ fetches' =
           CASE path = "cached" -> fetches
             [] path = "join" ->
                  [fetches EXCEPT ![loadingPromises[f]].awaiters = Append(@, c)]
             [] path = "fetch" -> Append(fetches, NewFetch(f, c))
      /\ loadingPromises' = IF path = "fetch"
                              THEN [loadingPromises EXCEPT ![f] = Len(fetches) + 1]
                              ELSE loadingPromises
      /\ UNCHANGED loadedFonts

\* a caller other than the PDF generator calls loadFont
LoadFont(c, f) ==
  /\ microtasks = <<>>
  /\ LoadFontSync(c, f)
  /\ UNCHANGED microtasks
  /\ UNCHANGED <<editorVars, genVars, extVars>>

\* preloadFonts, for one font of its list: fetchAndCacheFont is called directly
Preload(c, f) ==
  /\ microtasks = <<>>
  /\ calls[c].role = "idle"
  /\ Len(fetches) < MaxFetches
  /\ calls' = [calls EXCEPT ![c] =
       [op |-> "preload", font |-> f, fetch |-> Len(fetches) + 1,
        role |-> "preload", result |-> "none"]]
  /\ fetches' = Append(fetches, NewFetch(f, c))
  /\ UNCHANGED <<loadedFonts, loadingPromises, docFonts, microtasks>>
  /\ UNCHANGED <<editorVars, genVars, extVars>>

\* fetchAndCacheFont: the cache after the fetch of font f ended
cacheAfterFetch(lf, f, ok) == IF ok THEN lf \cup {f} ELSE lf

\* the fetch (or the reading of its body) of run id ends: fetchAndCacheFont
\* caches the data and resolves, or rejects; the awaiting calls become ready
FetchSettles(id, ok) ==
  /\ microtasks = <<>>
  /\ id \in DOMAIN fetches
  /\ fetches[id].state = "pending"
  /\ fetches' = [fetches EXCEPT ![id].state = IF ok THEN "ok" ELSE "failed",
                               ![id].awaiters = <<>>]
  /\ loadedFonts' = cacheAfterFetch(loadedFonts, fetches[id].font, ok)
  /\ microtasks' = [k \in 1 .. Len(fetches[id].awaiters) |->
                      [who |-> fetches[id].awaiters[k], kind |-> "font"]]
  /\ UNCHANGED <<loadingPromises, calls, docFonts>>
  /\ UNCHANGED <<editorVars, genVars, extVars>>

\* loadFont after its await: what the call returns ("throw": it rejects)
loadFontResult(role, ok) ==
  CASE role = "starter" -> IF ok THEN "true" ELSE "false"
    [] role = "waiter"  -> IF ok THEN "true" ELSE "throw"
    [] OTHER            -> IF ok THEN "true" ELSE "false"

\* a starter that removes its loadingPromises entry only after a successful load
promisesKeptOnFailure(lp, role, f, ok) ==
  IF role = "starter" /\ ok THEN [lp EXCEPT ![f] = 0] ELSE lp

\* loadFont after its await: this.loadingPromises once the call of that role ended
promisesAfterLoad(lp, role, f, ok) ==
  IF role = "starter" THEN [lp EXCEPT ![f] = 0] ELSE lp

\* the continuation of caller c's await runs: the rest of loadFont or of the
\* preloadFonts callback
ResumeFontCall(c) ==
  LET call == calls[c]
      ok == fetches[call.fetch].state = "ok"
  IN  /\ calls' = [calls EXCEPT ![c].role = "done",
                                ![c].result = loadFontResult(call.role, ok)]
      /\ loadingPromises' = promisesAfterLoad(loadingPromises, call.role, call.font, ok)
      /\ docFonts' = IF ok /\ call.role \in {"starter", "waiter"}
                       THEN [docFonts EXCEPT ![c] = {call.font}]
                       ELSE docFonts
      /\ UNCHANGED <<loadedFonts, fetches>>

\* the next ready continuation belongs to a direct caller of the font loader
FontContinuation ==
  /\ microtasks # <<>>
  /\ Head(microtasks).kind = "font"
  /\ exports[Head(microtasks).who].pc = "idle"
  /\ ResumeFontCall(Head(microtasks).who)
  /\ microtasks' = Tail(microtasks)
  /\ UNCHANGED <<editorVars, genVars, extVars>>

\* the caller has consumed the outcome of its call and may call again
Return(c) ==
  /\ microtasks = <<>>
  /\ calls[c].role = "done"
  /\ calls' = [calls EXCEPT ![c] = NoCall]
  /\ docFonts' = [docFonts EXCEPT ![c] = {}]
  /\ UNCHANGED <<loadedFonts, loadingPromises, fetches, microtasks>>
  /\ UNCHANGED <<editorVars, genVars, extVars>>

(***************************************************************************)
(* PDFGenerator.generate                                                   *)
(* Lengths are in 1/100 pt.  A generate call runs in chunks: each await    *)
(* ends a chunk and queues the rest of the call as a microtask.            *)
(***************************************************************************)

\* the built-in templates the model exports with
Templates == {"clean", "business"}

\* getDefaultTemplates: the fields generate reads (lineHeight in tenths)
Template(name) ==
  IF name = "business"
    THEN [name |-> "business", font |-> "NanumMyeongjo", fontSize |-> 1100,
          lineHeight |-> 18, margin |-> [top |-> 9000, bottom |-> 9000]]
    ELSE [name |-> "clean", font |-> "NanumGothic", fontSize |-> 1200,
          lineHeight |-> 16, margin |-> [top |-> 7200, bottom |-> 7200]]

\* getPageHeight for pageSize 'a4', portrait: 841.89 pt
PageHeight == 84189

\* the contents exported in the model: whether hasMarkdownSyntax finds markup,
\* and the number of wrapped lines of each paragraph (60 short paragraphs of
\* plain text have no markup)
PdfInputs ==
  {[markdown |-> m, paras |-> ps] : m \in BOOLEAN, ps \in {<<2, 1>>, <<40>>}}
    \cup {[markdown |-> FALSE, paras |-> [k \in 1 .. 60 |-> 1]]}

\* the page-number formats the model exports with
PageFormats == {"number", "of"}

NoSettings == [showPageNumber |-> FALSE, format |-> "none", startFrom |-> 0,
               excludeFirst |-> FALSE]

\* getDefaultPageSettings(settings), for settings = {pageNumber: {format}}
getDefaultPageSettings(format) ==
  [showPageNumber |-> TRUE, format |-> format, startFrom |-> 1, excludeFirst |-> FALSE]

NoDoc == [pages |-> 0, text |-> <<>>, stamps |-> <<>>]

\* new jsPDF(...): one empty page
NewDoc == [pages |-> 1, text |-> <<>>, stamps |-> <<>>]

NoExport ==
  [pc |-> "idle", input |-> [markdown |-> FALSE, paras |-> <<>>],
   template |-> "none", next |-> 0, returned |-> 0]

InitGen ==
  /\ doc = 0
  /\ currentTemplate = "none"
  /\ yPosition = 0
  /\ pageNumber = 1
  /\ pageSettings = NoSettings
  /\ exports = [e \in Callers |-> NoExport]
  /\ docs = [e \in Callers |-> NoDoc]

\* const lineHeight = fontSize * lineHeight
lineHeightOf(t) == (t.fontSize * t.lineHeight) \div 10

\* addPage, on the layout state L = [y, pn, ds] with this.doc = d
addPage(L, d, t) ==
  [y |-> t.margin.top, pn |-> L.pn + 1, ds |-> [L.ds EXCEPT ![d].pages = @ + 1]]

\* this.doc.text(line, margin.left, this.yPosition): a line of export owner's
\* content lands on the current (last) page of document d
drawText(L, d, owner) ==
  [L EXCEPT !.ds = [L.ds EXCEPT ![d].text =
     Append(@, [owner |-> owner, page |-> L.ds[d].pages, y |-> L.y])]]

\* a per-line loop that draws without the page-break check
drawLineNoBreak(L, d, t, owner) ==
  [drawText(L, d, owner) EXCEPT !.y = @ + lineHeightOf(t)]

\* one turn of the per-line loop of renderParagraph and renderPlainText:
\* the page-break check, the text, the advance of the cursor
drawLine(L, d, t, owner) ==
  LET L1 == IF L.y + lineHeightOf(t) > PageHeight - t.margin.bottom
              THEN addPage(L, d, t) ELSE L
      L2 == drawText(L1, d, owner)
  IN  [L2 EXCEPT !.y = @ + lineHeightOf(t)]

RECURSIVE drawLines(_, _, _, _, _)
\* the per-line loop, for n wrapped lines (the test on the cursor only makes
\* TLC compute each line before it goes on to the next)
drawLines(n, L, d, t, owner) ==
  IF n = 0 THEN L
  ELSE LET N == drawLine(L, d, t, owner)
       IN  IF N.y >= 0 THEN drawLines(n - 1, N, d, t, owner) ELSE N

\* renderParagraph, for a paragraph of n wrapped lines
renderParagraph(n, L, d, t, owner) ==
  LET L1 == drawLines(n, L, d, t, owner)
  IN  [L1 EXCEPT !.y = @ + t.fontSize \div 2]

\* renderElement, for a <p> element of n wrapped lines
renderElement(n, L, d, t, owner) ==
  LET L0 == IF L.y > PageHeight - t.margin.bottom - 5000
              THEN addPage(L, d, t) ELSE L
  IN  renderParagraph(n, L0, d, t, owner)

RECURSIVE renderPlainText(_, _, _, _, _)
\* renderPlainText, for the paragraphs ps (each a number of wrapped lines; the
\* test on the cursor only makes TLC compute each paragraph before the next)
renderPlainText(ps, L, d, t, owner) ==
  IF ps = <<>> THEN L
  ELSE LET L1 == drawLines(Head(ps), L, d, t, owner)
           L2 == [L1 EXCEPT !.y = @ + lineHeightOf(t) \div 2]
       IN  IF L2.y >= 0 THEN renderPlainText(Tail(ps), L2, d, t, owner) ELSE L2

\* a switch that stamps the bare number whatever the format
pageTextNumberOnly(format, actualNumber, pageCount) == <<ToString(actualNumber)>>

\* the switch on format in addPageNumbers: the text stamped, as its pieces
pageText(format, actualNumber, pageCount) ==
  CASE format = "number" -> <<ToString(actualNumber)>>
    [] format = "of"     -> <<ToString(actualNumber), " / ", ToString(pageCount)>>
    [] OTHER             -> <<>>

\* addPageNumbers: one stamp per page of document d (the first left out with
\* excludeFirst), under the page settings ps
addPageNumbers(ds, d, ps) ==
  LET pageCount == ds[d].pages
      stamped == IF ps.excludeFirst THEN 2 .. pageCount ELSE 1 .. pageCount
      first == IF ps.excludeFirst THEN 2 ELSE 1
  IN  [ds EXCEPT ![d].stamps =
         @ \o [k \in 1 .. Cardinality(stamped) |->
                 [page |-> first + k - 1,
                  text |-> pageText(ps.format, first + k - 1 - 1 + ps.startFrom, pageCount)]]]

GenTask(e) == [who |-> e, kind |-> "gen"]

\* generate(content, template, settings) up to its await of loadFont
GenStart(e, inp, tn, fmt) ==
  /\ microtasks = <<>>
  /\ exports[e].pc = "idle"
  /\ currentTemplate' = tn
  /\ pageSettings' = getDefaultPageSettings(fmt)
  /\ doc' = e
  /\ docs' = [docs EXCEPT ![e] = NewDoc]
  /\ LoadFontSync(e, Template(tn).font)
  /\ exports' = [exports EXCEPT ![e] =
       [pc |-> "font", input |-> inp, template |-> tn, next |-> 1, returned |-> 0]]
  /\ microtasks' =
       IF loadFontPath(loadedFonts, loadingPromises, Template(tn).font) = "cached"
         THEN <<GenTask(e)>> ELSE <<>>
  /\ UNCHANGED <<yPosition, pageNumber>>
  /\ UNCHANGED <<editorVars, extVars>>

\* the rest of a generate call's loadFont runs; generate resumes after it
\* unless loadFont rejected, which rejects generate
GenFontContinuation ==
  /\ microtasks # <<>>
  /\ Head(microtasks).kind = "font"
  /\ LET c == Head(microtasks).who
         r == loadFontResult(calls[c].role, fetches[calls[c].fetch].state = "ok")
     IN  /\ exports[c].pc = "font"
         /\ ResumeFontCall(c)
         /\ IF r = "throw"
              THEN /\ exports' = [exports EXCEPT ![c].pc = "rejected"]
                   /\ microtasks' = Tail(microtasks)
              ELSE /\ microtasks' = Append(Tail(microtasks), GenTask(c))
                   /\ UNCHANGED exports
  /\ UNCHANGED <<doc, currentTemplate, yPosition, pageNumber, pageSettings, docs>>
  /\ UNCHANGED <<editorVars, extVars>>

\* generate after loadFont: the cursor is reset, then renderPlainText runs
\* whole, or renderContent runs up to the await of its first element
GenAfterFont(e) ==
  LET x == exports[e]
      t == Template(currentTemplate)
      L0 == [y |-> t.margin.top, pn |-> 1, ds |-> docs]
      L == IF x.input.markdown
             THEN renderElement(x.input.paras[1], L0, doc, t, e)
             ELSE renderPlainText(x.input.paras, L0, doc, t, e)
  IN  /\ x.pc = "font"
      /\ yPosition' = L.y
      /\ pageNumber' = L.pn
      /\ docs' = L.ds
      /\ exports' = [exports EXCEPT
           ![e].pc = IF x.input.markdown THEN "render" ELSE "final",
           ![e].next = IF x.input.markdown THEN 2 ELSE 1]
      /\ microtasks' = Append(Tail(microtasks), GenTask(e))
      /\ UNCHANGED <<doc, currentTemplate, pageSettings>>

\* renderContent resumes: the next element is rendered, or the loop ends
GenRenderNext(e) ==
  LET x == exports[e]
      t == Template(currentTemplate)
      L == renderElement(x.input.paras[x.next],
                         [y |-> yPosition, pn |-> pageNumber, ds |-> docs], doc, t, e)
  IN  /\ x.pc = "render"
      /\ IF x.next <= Len(x.input.paras)
           THEN /\ yPosition' = L.y
                /\ pageNumber' = L.pn
                /\ docs' = L.ds
                /\ exports' = [exports EXCEPT ![e].next = @ + 1]
           ELSE /\ exports' = [exports EXCEPT ![e].pc = "final"]
                /\ UNCHANGED <<yPosition, pageNumber, docs>>
      /\ microtasks' = Append(Tail(microtasks), GenTask(e))
      /\ UNCHANGED <<doc, currentTemplate, pageSettings>>

\* the end of generate: addPageNumbers, return this.doc
GenFinish(e) ==
  /\ exports[e].pc = "final"
  /\ docs' = IF pageSettings.showPageNumber
                THEN addPageNumbers(docs, doc, pageSettings) ELSE docs
  /\ exports' = [exports EXCEPT ![e].pc = "done", ![e].returned = doc]
  /\ microtasks' = Tail(microtasks)
  /\ UNCHANGED <<doc, currentTemplate, yPosition, pageNumber, pageSettings>>

\* the next ready continuation is the rest of a generate call
GenContinuation ==
  /\ microtasks # <<>>
  /\ Head(microtasks).kind = "gen"
  /\ LET e == Head(microtasks).who
     IN  \/ GenAfterFont(e)
         \/ GenRenderNext(e)
         \/ GenFinish(e)
  /\ UNCHANGED <<editorVars, extVars, loadedFonts, loadingPromises, fetches, calls, docFonts>>

NextEditor ==
  \/ \E c \in Contents : Input(c)
  \/ SnapshotTimerFires
  \/ Undo
  \/ Redo
  \/ CooldownFires
  \/ \E c \in Contents : LoadDocument(c)
  \/ \E b \in BOOLEAN : NewDocument(b)
  \/ \E c \in Contents : SetContent(c)

NextFont ==
  \/ \E c \in Callers, f \in Fonts : LoadFont(c, f)
  \/ \E c \in Callers, f \in Fonts : Preload(c, f)
  \/ \E id \in 1 .. MaxFetches, ok \in BOOLEAN : FetchSettles(id, ok)
  \/ FontContinuation
  \/ \E c \in Callers : Return(c)

NextGen ==
  \/ \E e \in Callers, inp \in PdfInputs, tn \in Templates, fmt \in PageFormats :
       GenStart(e, inp, tn, fmt)
  \/ \E id \in 1 .. MaxFetches, ok \in BOOLEAN : FetchSettles(id, ok)
  \/ GenFontContinuation
  \/ GenContinuation

Init == InitEditor /\ InitFont /\ InitGen /\ InitExt

SpecEditor == Init /\ [][NextEditor]_vars

SpecFont == Init /\ [][NextFont]_vars

SpecGen == Init /\ [][NextGen]_vars

(***************************************************************************)
(* Properties of the editor history                                        *)
(***************************************************************************)

\* a restore is in flight from applyHistoryState until its own 10 ms timer expired
RestoreInFlight == cooldowns > 0

\* C1: saveHistoryState never runs while a history-driven restore is in flight
\* (between the start of applyHistoryState and the expiry of its 10 ms timer).
C1_NoSnapshotDuringRestore ==
  [][SnapshotTimerFires => ~RestoreInFlight]_vars

\* C4: no two adjacent history entries have the same content.
C4_NoAdjacentDuplicates ==
  \A k \in 1 .. Len(history) - 1 : history[k].content # history[k + 1].content

\* snapshots were recorded, the cursor was moved back and the textarea shows
\* the content of the last entry again
C4_Witness ==
  /\ Len(history) >= 3
  /\ historyIndex = 1
  /\ content = history[Len(history)].content

\* C5: the history holds at most 50 entries, -1 <= historyIndex <= length - 1,
\* and historyIndex is -1 only while the history is empty.
C5_HistoryBounds ==
  /\ Len(history) <= maxHistoryLength
  /\ -1 <= historyIndex
  /\ historyIndex <= Len(history) - 1
  /\ (historyIndex = -1 => history = <<>>)

\* the history is full, the cursor is at the tail and one more snapshot is pending
C5_Witness ==
  /\ Len(history) = maxHistoryLength
  /\ historyIndex = maxHistoryLength - 1
  /\ snapPending # <<>>
  /\ snapPending[1] # history[Len(history)].content

RECURSIVE contentAfterUndos(_, _, _, _)
\* the textarea value after n consecutive undo() calls
contentAfterUndos(n, h, i, c) ==
  IF n = 0 THEN c
  ELSE contentAfterUndos(n - 1, h, undoIndex(h, i), contentAfterUndo(h, i, c))

\* the state right after N pairwise distinct snapshots were recorded into the
\* empty history: N entries, the cursor on the last, the textarea showing it
AfterDistinctSnapshots ==
  /\ Len(history) >= 1
  /\ historyIndex = Len(history) - 1
  /\ \A j, k \in 1 .. Len(history) : j # k => history[j].content # history[k].content
  /\ content = history[Len(history)].content
  /\ snapPending = <<>>

\* C6: after N (1 <= N <= 50) snapshots with pairwise distinct content, N
\* consecutive undo calls leave the editor showing the initial empty content.
C6_UndoAllReturnsToEmpty ==
  AfterDistinctSnapshots =>
    contentAfterUndos(Len(history), history, historyIndex, content) = EmptyContent

\* C7: wherever undo is possible, undo followed by redo leaves the editor
\* content as it was immediately before the undo.
C7_UndoRedoRoundTrip ==
  historyIndex > 0 =>
    contentAfterRedo(history, undoIndex(history, historyIndex),
                     contentAfterUndo(history, historyIndex, content)) = content

\* C8: undo and redo never add, remove or change history entries, and undo at
\* historyIndex <= 0 and redo at the last entry change nothing at all.
C8_UndoRedoOnlyMoveCursor ==
  [][/\ (Undo \/ Redo) => history' = history
     /\ (Undo /\ historyIndex <= 0)
          => UNCHANGED <<historyIndex, history, content>>
     /\ (Redo /\ historyIndex >= Len(history) - 1)
          => UNCHANGED <<historyIndex, history, content>>]_vars

\* undo has run down to the first entry, where a further undo is a no-op
C8_Witness ==
  /\ historyIndex = 0
  /\ Len(history) > 1
  /\ isHandlingHistory
  /\ content = history[1].content
(***************************************************************************)
(* Properties of the font loader                                           *)
(***************************************************************************)

\* the fetchAndCacheFont runs for font f that are in the given state
FetchesOf(f, st) ==
  {id \in DOMAIN fetches : fetches[id].font = f /\ fetches[id].state = st}

\* C2: concurrent requests for the same font (loadFont or preloadFonts, issued
\* before the first one resolves) share one underlying fetch: no font ever has
\* two fetches in flight.
C2_OneFetchPerFont ==
  \A f \in Fonts : Cardinality(FetchesOf(f, "pending")) <= 1

\* the loadFont calls that have ended and had awaited fetch id
EndedOn(id) ==
  {c \in Callers : /\ calls[c].op = "loadFont"
                   /\ calls[c].role = "done"
                   /\ calls[c].fetch = id}

\* C9: when a fetch fails, every loadFont call that awaited it, the one that
\* started it included, ends with the same failure outcome, and none of them
\* reports success.
C9_FailureReachesAllCallers ==
  \A id \in DOMAIN fetches :
    fetches[id].state = "failed" =>
      \A c1, c2 \in EndedOn(id) :
        /\ calls[c1].result = calls[c2].result
        /\ calls[c1].result # "true"

\* every fetch of font f so far has failed and each failure has been delivered
\* to the calls that awaited it
FailureDelivered(f) ==
  /\ FetchesOf(f, "failed") # {}
  /\ FetchesOf(f, "pending") = {}
  /\ FetchesOf(f, "ok") = {}
  /\ microtasks = <<>>

\* C10: a failed load is not cached: the cache holds a font only after a fetch
\* of it succeeded, a loadingPromises entry names a fetch that is pending or
\* whose outcome is still being delivered, and once a failure has been
\* delivered neither map holds the font and the next loadFont call fetches anew.
C10_FailureNotCached ==
  \A f \in Fonts :
    /\ f \in loadedFonts => FetchesOf(f, "ok") # {}
    /\ loadingPromises[f] # 0 =>
         /\ loadingPromises[f] \in DOMAIN fetches
         /\ fetches[loadingPromises[f]].font = f
         /\ \/ fetches[loadingPromises[f]].state = "pending"
            \/ microtasks # <<>>
    /\ FailureDelivered(f) =>
         /\ f \notin loadedFonts
         /\ loadingPromises[f] = 0
         /\ loadFontPath(loadedFonts, loadingPromises, f) = "fetch"

\* a load of a font failed, the starter got false and a second call had joined it
C10_Witness ==
  \E f \in Fonts :
    /\ FailureDelivered(f)
    /\ \E c1, c2 \in Callers :
         /\ calls[c1].font = f /\ calls[c1].result = "false"
         /\ calls[c2].font = f /\ calls[c2].result = "throw"
(***************************************************************************)
(* Properties of the PDF generator                                         *)
(***************************************************************************)

RECURSIVE SumSeq(_)
SumSeq(q) == IF q = <<>> THEN 0 ELSE Head(q) + SumSeq(Tail(q))

\* the document export e created holds exactly e's content, page-numbered once
OwnContentOnly(e) ==
  /\ \A k \in 1 .. Len(docs[e].text) : docs[e].text[k].owner = e
  /\ Len(docs[e].text) = SumSeq(exports[e].input.paras)
  /\ Len(docs[e].stamps) = docs[e].pages

\* C3: generate calls that overlap share no cursor or page state: each call
\* returns its own document, which contains exactly its own content.
C3_ExportsIndependent ==
  \A e \in Callers :
    exports[e].pc = "done" =>
      /\ exports[e].returned = e
      /\ OwnContentOnly(e)

\* C11: in every generate call no text is drawn into a document before the
\* template's font has been loaded and registered in that document; a step that
\* draws text into document d finds the font registered in d.
C11_FontLoadedBeforeText ==
  [][\A d \in Callers :
       Len(docs'[d].text) > Len(docs[d].text)
         => Template(currentTemplate).font \in docFonts[d]]_vars

(***************************************************************************)
(* parseMarkdown: the table preprocessor, and the two paths to marked.parse *)
(* A string is a sequence of characters; a document is the sequence of its *)
(* lines (src.split('\n'), never empty: ''.split('\n') is ['']).           *)
(***************************************************************************)

\* the longest document of the model, in lines
MaxLines == 5

\* the backtick character
BT == "backtick"

\* the lines documents of the model are made of
LineAlphabet ==
  { <<>>,                                        \* ""
    <<"a">>,                                     \* "a"
    <<"a", "|", "b">>,                           \* "a|b"
    <<"|", "a", "|">>,                           \* "|a|"
    <<BT, BT, BT>>,                           \* "three backticks"
    <<BT, BT, BT, "|">>,                      \* "three backticks|"
    <<"-", "-", "-", "|", "-", "-", "-">>,       \* "---|---"
    <<"a", "-", "-", "-", "|", "b">> }           \* "a---|b"

MdInputs == UNION {[1 .. n -> LineAlphabet] : n \in 1 .. MaxLines}

\* \s of the regular expressions, over the characters of the model
IsSpace(c) == c = " "

\* String.prototype.trim
trim(s) ==
  LET nz == {i \in DOMAIN s : ~IsSpace(s[i])}
  IN  IF nz = {} THEN <<>>
      ELSE SubSeq(s, CHOOSE i \in nz : \A k \in nz : i <= k,
                     CHOOSE i \in nz : \A k \in nz : i >= k)

\* String.prototype.includes, for a one-character needle
includes(s, c) == \E i \in DOMAIN s : s[i] = c

RECURSIVE split(_, _)
\* String.prototype.split, for a one-character separator
split(s, c) ==
  IF ~includes(s, c) THEN <<s>>
  ELSE LET k == CHOOSE i \in DOMAIN s : s[i] = c /\ \A m \in 1 .. i - 1 : s[m] # c
       IN  <<SubSeq(s, 1, k - 1)>> \o split(SubSeq(s, k + 1, Len(s)), c)

\* the first index from i on where s has no whitespace (Len(s) + 1: none)
skipSpaces(s, i) ==
  IF \E k \in i .. Len(s) : ~IsSpace(s[k])
    THEN CHOOSE k \in i .. Len(s) : ~IsSpace(s[k]) /\ \A m \in i .. k - 1 : IsSpace(s[m])
    ELSE Len(s) + 1

\* the first index from i on where s has no dash (Len(s) + 1: none)
skipDashes(s, i) ==
  IF \E k \in i .. Len(s) : s[k] # "-"
    THEN CHOOSE k \in i .. Len(s) : s[k] # "-" /\ \A m \in i .. k - 1 : s[m] = "-"
    ELSE Len(s) + 1

at(s, i) == IF i \in DOMAIN s THEN s[i] ELSE "end"

\* /^\s*three backticks/.test(line)
isFenceLine(line) ==
  LET i == skipSpaces(line, 1)
  IN  at(line, i) = BT /\ at(line, i + 1) = BT /\ at(line, i + 2) = BT

\* /^\s*\|?\s*:?-{3,}(:?\s*\|.*)?$/.test(t)
matchesSeparatorPattern(t) ==
  LET p0 == skipSpaces(t, 1)
      p1 == IF at(t, p0) = "|" THEN p0 + 1 ELSE p0
      p2 == skipSpaces(t, p1)
      p3 == IF at(t, p2) = ":" THEN p2 + 1 ELSE p2
      p4 == skipDashes(t, p3)
      p5 == IF at(t, p4) = ":" THEN p4 + 1 ELSE p4
      p6 == skipSpaces(t, p5)
  IN  /\ p4 - p3 >= 3
      /\ \/ p4 = Len(t) + 1
         \/ at(t, p6) = "|"

\* /-{3,}/.test(s)
hasDashRun(s) ==
  \E i \in 1 .. Len(s) - 2 : s[i] = "-" /\ s[i + 1] = "-" /\ s[i + 2] = "-"

\* the isSeparator test on the second line of a block
isSeparator(second) ==
  \/ matchesSeparatorPattern(trim(second))
  \/ LET cells == split(second, "|")
     IN  \E k \in DOMAIN cells : hasDashRun(trim(cells[k]))

\* block[0].split('|').map(trim).filter(non-empty).length, at least 1
colCount(header) ==
  LET cells == split(header, "|")
      n == Cardinality({k \in DOMAIN cells : Len(trim(cells[k])) > 0})
  IN  IF n > 1 THEN n ELSE 1

RECURSIVE joinDashes(_)
\* Array(n).fill('---').join(' | ')
joinDashes(n) ==
  IF n = 1 THEN <<"-", "-", "-">>
  ELSE <<"-", "-", "-", " ", "|", " ">> \o joinDashes(n - 1)

\* a separator row whose cells have two dashes only
sepRowTwoDashes(n) == <<"|", " ", "-", "-", " ", "|">>

\* '| ' + Array(colCount).fill('---').join(' | ') + ' |'
sepRow(n) == <<"|", " ">> \o joinDashes(n) \o <<" ", "|">>

\* the lines a .. b of the input, each with the index it came from
origLines(lines, a, b) ==
  [k \in 1 .. (IF b >= a THEN b - a + 1 ELSE 0) |->
     [text |-> lines[a + k - 1], from |-> a + k - 1]]

\* the synthesized separator row (from 0: it comes from no input line)
sepLine(header) == [text |-> sepRow(colCount(header)), from |-> 0]

\* the inner while of the fence branch: the first fence line from i on
fenceEnd(lines, i) ==
  IF \E k \in i .. Len(lines) : isFenceLine(lines[k])
    THEN CHOOSE k \in i .. Len(lines) :
           isFenceLine(lines[k]) /\ \A m \in i .. k - 1 : ~isFenceLine(lines[m])
    ELSE Len(lines) + 1

\* a line that ends the collection of a pipe block
endsBlock(line) == Len(trim(line)) = 0 \/ ~includes(trim(line), "|")

\* the while that collects a pipe block: the first line from i on that ends it
blockEnd(lines, i) ==
  IF \E k \in i .. Len(lines) : endsBlock(lines[k])
    THEN CHOOSE k \in i .. Len(lines) :
           endsBlock(lines[k]) /\ \A m \in i .. k - 1 : ~endsBlock(lines[m])
    ELSE Len(lines) + 1

RECURSIVE preprocessFrom(_, _, _)
\* the outer while of the preprocessor, at index i with the output out
preprocessFrom(lines, i, out) ==
  IF i > Len(lines) THEN out
  ELSE IF isFenceLine(lines[i])
    THEN LET c == fenceEnd(lines, i + 1)
             e == IF c <= Len(lines) THEN c ELSE Len(lines)
         IN  preprocessFrom(lines, e + 1, out \o origLines(lines, i, e))
  ELSE IF includes(lines[i], "|") /\ Len(trim(lines[i])) > 0
    THEN LET j == blockEnd(lines, i + 1)
         IN  IF j - i >= 2 /\ isSeparator(lines[i + 1])
               THEN preprocessFrom(lines, j, out \o origLines(lines, i, j - 1))
               ELSE preprocessFrom(lines, j,
                      out \o origLines(lines, i, i) \o <<sepLine(lines[i])>>
                          \o origLines(lines, i + 1, j - 1))
  ELSE preprocessFrom(lines, i + 1, out \o origLines(lines, i, i))

\* the preprocessor's output lines, each with the input line it came from
preprocessedLines(lines) == preprocessFrom(lines, 1, <<>>)

\* const preprocessed = (function(src) {...})(markdown)
preprocessed(lines) ==
  LET out == preprocessedLines(lines)
  IN  [k \in DOMAIN out |-> out[k].text]

\* the characters removeEmojis deletes, as far as the model names them
EmojiChars == {"emoji"}

\* removeEmojis
removeEmojis(lines) ==
  [k \in DOMAIN lines |-> SelectSeq(lines[k], LAMBDA c : c \notin EmojiChars)]

\* !content.trim()
isBlankContent(lines) == \A k \in DOMAIN lines : Len(trim(lines[k])) = 0

\* a pattern of hasMarkdownSyntax that needs only one line to match
lineHasMarkdownSyntax(l) ==
  \/ at(l, 1) = "-" /\ Len(l) >= 2 /\ IsSpace(l[2])                 \* /^[-*+]\s/m
  \/ \E i \in 1 .. Len(l) - 2 :                                     \* /three backticks/
       l[i] = BT /\ l[i + 1] = BT /\ l[i + 2] = BT
  \/ \E i, j \in DOMAIN l :                                         \* inline code span
       /\ i + 1 < j /\ l[i] = BT /\ l[j] = BT
       /\ \A m \in i + 1 .. j - 1 : l[m] # BT
  \/ Len(l) >= 3 /\ l[1] = "|" /\ l[Len(l)] = "|"                   \* /^\|.+\|$/m
  \/ Len(l) >= 3 /\ \A i \in DOMAIN l : l[i] = "-"                  \* /^---+$/m

\* hasMarkdownSyntax, for the patterns that characters of the model can match
hasMarkdownSyntax(lines) == \E k \in DOMAIN lines : lineHasMarkdownSyntax(lines[k])

\* the user has typed a document
TypeMarkdown ==
  /\ mdSource = <<>>
  /\ \E src \in MdInputs : mdSource' = src
  /\ UNCHANGED <<previewMarkup, exportMarkup>>
  /\ UNCHANGED <<editorVars, fontVars, genVars, tplVars, pasteVars, pvVars, lateVars>>

\* updatePreview: placeholder for blank content, else parseMarkdown
UpdatePreview ==
  /\ mdSource # <<>>
  /\ previewMarkup = NoMarkup
  /\ previewMarkup' =
       IF isBlankContent(mdSource) THEN [path |-> "placeholder", lines |-> <<>>]
       ELSE [path |-> "parsed", lines |-> preprocessed(removeEmojis(mdSource))]
  /\ UNCHANGED <<mdSource, exportMarkup>>
  /\ UNCHANGED <<editorVars, fontVars, genVars, tplVars, pasteVars, pvVars, lateVars>>

\* exportToPDF and generate, as far as the markup goes: nothing for blank
\* content, renderPlainText without markdown syntax, else marked.parse(content)
ExportMarkup ==
  /\ mdSource # <<>>
  /\ exportMarkup = NoMarkup
  /\ exportMarkup' =
       IF isBlankContent(mdSource) THEN [path |-> "refused", lines |-> <<>>]
       ELSE IF ~hasMarkdownSyntax(mdSource) THEN [path |-> "plain", lines |-> mdSource]
       ELSE [path |-> "parsed", lines |-> mdSource]
  /\ UNCHANGED <<mdSource, previewMarkup>>
  /\ UNCHANGED <<editorVars, fontVars, genVars, tplVars, pasteVars, pvVars, lateVars>>

NextMarkdown ==
  \/ TypeMarkdown
  \/ UpdatePreview
  \/ ExportMarkup

SpecMarkdown == Init /\ [][NextMarkdown]_vars

(***************************************************************************)
(* Properties of the table preprocessor                                    *)
(***************************************************************************)

\* C12: the table normalizer is idempotent: normalizing its output again
\* yields that same output.
C12_NormalizerIdempotent ==
  previewMarkup.path = "parsed" =>
    preprocessed(previewMarkup.lines) = previewMarkup.lines

\* a document of several lines was normalized and gained separator rows
C12_Witness ==
  /\ previewMarkup.path = "parsed"
  /\ Len(mdSource) >= 3
  /\ Len(previewMarkup.lines) >= Len(mdSource) + 2

\* a line starting with three backticks
startsWithFence(l) == at(l, 1) = BT /\ at(l, 2) = BT /\ at(l, 3) = BT

\* line k of src lies in a fenced block that goes on after it: an odd number
\* of fence lines among the lines 1 .. k
fenceOpenAfter(src, k) ==
  Cardinality({m \in 1 .. k : startsWithFence(src[m])}) % 2 = 1

\* C13: every line of a fenced code block (from a line starting with three
\* backticks up to and including the next such line) appears in the output
\* unchanged, in the same order, with no line inserted among them.
C13_FencedLinesUntouched ==
  previewMarkup.path = "parsed" =>
    LET out == preprocessedLines(mdSource)
    IN  /\ SelectSeq(out, LAMBDA r : r.from # 0) = origLines(mdSource, 1, Len(mdSource))
        /\ \A p \in 2 .. Len(out) - 1 :
             out[p].from = 0 => ~fenceOpenAfter(mdSource, out[p - 1].from)

\* a document that is one run of non-blank lines that all contain a pipe,
\* outside code fences
SingleRun(src) ==
  \A k \in DOMAIN src :
    includes(src[k], "|") /\ Len(trim(src[k])) > 0 /\ ~startsWithFence(src[k])

\* a cell of three or more dashes, optionally colon-flanked
isDashCell(c) ==
  LET a == IF at(c, 1) = ":" THEN 2 ELSE 1
      b == IF at(c, Len(c)) = ":" THEN Len(c) - 1 ELSE Len(c)
  IN  b - a + 1 >= 3 /\ \A i \in a .. b : c[i] = "-"

\* a valid separator row: every cell (the empty ones before a leading and
\* after a trailing pipe left aside) is such a cell
validSeparatorRow(l) ==
  LET cells == split(trim(l), "|")
      inner == {k \in DOMAIN cells : ~(k \in {1, Len(cells)} /\ Len(trim(cells[k])) = 0)}
  IN  inner # {} /\ \A k \in inner : isDashCell(trim(cells[k]))

\* C14: a run of pipe lines whose second line is not a valid separator row
\* gains exactly one separator row of max(1, non-empty header cells) columns
\* right after its first line, and a run whose second line is a valid separator
\* row is output unchanged.
C14_SeparatorSynthesis ==
  (previewMarkup.path = "parsed" /\ SingleRun(mdSource)) =>
    previewMarkup.lines =
      IF Len(mdSource) >= 2 /\ validSeparatorRow(mdSource[2])
        THEN mdSource
        ELSE <<mdSource[1], sepRow(colCount(mdSource[1]))>> \o Tail(mdSource)

\* C15: the markup handed to the markdown parser is the output of the table
\* normalizer, on the live-preview path and on the PDF export path alike.
C15_ParserGetsNormalizedMarkup ==
  /\ previewMarkup.path = "parsed" => previewMarkup.lines = preprocessed(mdSource)
  /\ exportMarkup.path = "parsed" => exportMarkup.lines = preprocessed(mdSource)

(***************************************************************************)
(* Properties of the page layout                                           *)
(***************************************************************************)

\* the input of 60 short paragraphs (one wrapped line each)
SixtyParagraphs == [k \in 1 .. 60 |-> 1]

\* export e has finished and no other generate call was made
ExportedAlone(e) ==
  /\ exports[e].pc = "done"
  /\ \A o \in Callers \ {e} : exports[o].pc = "idle"

C17_PageNumbersOf ==
  \A e \in Callers :
    (ExportedAlone(e) /\ pageSettings.format = "of") =>
      docs[e].stamps =
        [i \in 1 .. docs[e].pages |->
           [page |-> i, text |-> <<ToString(i), " / ", ToString(docs[e].pages)>>]]

\* a three-page export with format "of" has finished
C17_Witness ==
  \E e \in Callers :
    /\ ExportedAlone(e)
    /\ pageSettings.format = "of"
    /\ docs[e].pages = 3
    /\ docs[e].stamps[3].text = <<"3", " / ", "3">>

(***************************************************************************)
(* TemplateEngine: customizations                                          *)
(***************************************************************************)

\* the colors of the built-in templates
TemplateColors(name) ==
  IF name = "business"
    THEN [primary |-> "#1a202c", secondary |-> "#4a5568", accent |-> "#2b6cb0",
          code |-> "#edf2f7", codeText |-> "#2d3748"]
    ELSE [primary |-> "#2c3e50", secondary |-> "#7f8c8d", accent |-> "#3498db",
          code |-> "#ecf0f1", codeText |-> "#e74c3c"]

\* the color keys and values customizeTemplate is called with in the model
OverrideKeys == {"primary", "accent"}
OverrideColors == {"#ff0000", "#00ff00"}

\* the font sizes it is called with (1/100 pt)
OverrideSizes == {1400, 1600}

\* the colors objects passed as options.colors
ColorOptions == UNION {[ks -> OverrideColors] : ks \in SUBSET OverrideKeys}

\* the options objects customizeTemplate is called with: any of fontSize, colors
TemplateOptions ==
  {EmptyObject} \cup {[fontSize |-> z] : z \in OverrideSizes}
    \cup {[colors |-> c] : c \in ColorOptions}
    \cup {[fontSize |-> z, colors |-> c] : z \in OverrideSizes, c \in ColorOptions}

\* { ...a, ...b }
spread(a, b) ==
  [k \in DOMAIN a \cup DOMAIN b |-> IF k \in DOMAIN b THEN b[k] ELSE a[k]]

\* the object customizeTemplate returns for the customizations cz over base:
\* its fontSize and colors
customized(base, cz) ==
  [fontSize |-> IF "fontSize" \in DOMAIN cz THEN cz.fontSize
                ELSE Template(base).fontSize,
   colors |-> spread(TemplateColors(base),
                     IF "colors" \in DOMAIN cz THEN cz.colors ELSE EmptyObject)]

\* getActiveTemplate: fontSize and colors of the effective template
getActiveTemplate(base, cz) ==
  IF DOMAIN cz = {}
    THEN [fontSize |-> Template(base).fontSize, colors |-> TemplateColors(base)]
    ELSE customized(base, spread(cz, EmptyObject))

\* customizeTemplate(options)
CustomizeTemplate(options) ==
  /\ customizations' = spread(customizations, options)
  /\ colorOverrides' = IF "colors" \in DOMAIN options
                         THEN spread(colorOverrides, options.colors)
                         ELSE colorOverrides
  /\ UNCHANGED tplCurrent
  /\ UNCHANGED <<editorVars, fontVars, genVars, mdVars, pasteVars, pvVars, lateVars>>

\* setCurrentTemplate(name)
SetCurrentTemplate(name) ==
  /\ tplCurrent' = name
  /\ customizations' = EmptyObject
  /\ colorOverrides' = EmptyObject
  /\ UNCHANGED <<editorVars, fontVars, genVars, mdVars, pasteVars, pvVars, lateVars>>

\* resetCustomizations()
ResetCustomizations ==
  /\ customizations' = EmptyObject
  /\ colorOverrides' = EmptyObject
  /\ UNCHANGED tplCurrent
  /\ UNCHANGED <<editorVars, fontVars, genVars, mdVars, pasteVars, pvVars, lateVars>>

NextTemplate ==
  \/ \E o \in TemplateOptions : CustomizeTemplate(o)
  \/ \E n \in Templates : SetCurrentTemplate(n)
  \/ ResetCustomizations

SpecTemplate == Init /\ [][NextTemplate]_vars

\* C18: the effective template's colors are the base template's colors with
\* exactly the keys overridden by customizeTemplate calls since the last reset
\* replaced by their latest override; overriding fontSize alone leaves the
\* colors equal to the base template's.
C18_ColorsMergedKeyByKey ==
  getActiveTemplate(tplCurrent, customizations).colors
    = spread(TemplateColors(tplCurrent), colorOverrides)

(***************************************************************************)
(* PasteHandler (js/editor/paste-handler.js).  A paste event carries the    *)
(* clipboard's text/html and text/plain payloads.  The handler runs first;  *)
(* when it returns without having called preventDefault the browser        *)
(* performs its default action and inserts the text/plain payload at the   *)
(* selection itself.  Payloads are sequences of characters.                *)
(***************************************************************************)

\* the textarea holds at most this many characters
MaxValueLen == 4

\* the text/html payloads of the clipboard (<<>>: getData returns '')
HtmlPayloads == {<<>>, <<"<i>", "x", "</i>">>}

\* the text/plain payloads of the clipboard
TextPayloads == {<<>>, <<"x">>}

\* turndownService.turndown(html): the tags of the fragment become markup
\* (an emphasis tag becomes the delimiter "_")
RECURSIVE turndown(_)
turndown(html) ==
  IF html = <<>> THEN <<>>
  ELSE LET c == Head(html)
       IN  (IF c \in {"<i>", "</i>"} THEN <<"_">> ELSE <<c>>) \o turndown(Tail(html))

\* _insertTextAtCursor(text) on a textarea with the given value and selection
insertTextAtCursor(value, start, end, text) ==
  [value |-> SubSeq(value, 1, start) \o text \o SubSeq(value, end + 1, Len(value)),
   caret |-> start + Len(text),
   inputEvent |-> TRUE]

\* the textarea untouched by the handler
notInserted(value, start, end) ==
  [value |-> value, caret |-> end, inputEvent |-> FALSE]

\* handlePaste(e): whether it called e.preventDefault(), whether turndown
\* returned, and the textarea it leaves.  throws: turndown raises on this
\* fragment.
handlePaste(hasClipboard, htmlData, textData, throws, value, start, end) ==
  IF ~hasClipboard
    THEN [defaultPrevented |-> FALSE, converted |-> FALSE, caught |-> FALSE,
          area |-> notInserted(value, start, end)]
  ELSE IF htmlData /= <<>> /\ turndownService
    THEN IF ~throws
           THEN [defaultPrevented |-> TRUE, converted |-> TRUE, caught |-> FALSE,
                 area |-> insertTextAtCursor(value, start, end, turndown(htmlData))]
           ELSE [defaultPrevented |-> TRUE, converted |-> FALSE, caught |-> TRUE,
                 area |-> insertTextAtCursor(value, start, end, textData)]
  ELSE [defaultPrevented |-> FALSE, converted |-> FALSE, caught |-> FALSE,
        area |-> notInserted(value, start, end)]

\* new PasteHandler(textarea) at page load: initTurndown finds the turndown
\* script loaded or not
NewPasteHandler(turndownDefined) ==
  /\ turndownService' = turndownDefined
  /\ pasteValue' = <<>>
  /\ selectionStart' = 0
  /\ selectionEnd' = 0
  /\ lastPaste' = NoPaste
  /\ UNCHANGED <<editorVars, fontVars, genVars, mdVars, tplVars, pvVars, lateVars>>

\* the user moves the caret or selects a range of the textarea
Select(start, end) ==
  /\ start <= end
  /\ <<start, end>> /= <<selectionStart, selectionEnd>>
  /\ selectionStart' = start
  /\ selectionEnd' = end
  /\ UNCHANGED <<turndownService, pasteValue, lastPaste>>
  /\ UNCHANGED <<editorVars, fontVars, genVars, mdVars, tplVars, pvVars, lateVars>>

\* a paste event on the textarea: the listener calls handlePaste, then the
\* browser pastes the text/plain payload itself unless the default action
\* was prevented
Paste(hasClipboard, htmlData, textData, throws) ==
  LET h == handlePaste(hasClipboard, htmlData, textData, throws,
                       pasteValue, selectionStart, selectionEnd)
      native == ~h.defaultPrevented
      after == IF native
                 THEN insertTextAtCursor(pasteValue, selectionStart, selectionEnd, textData)
                 ELSE h.area
  IN  /\ Len(after.value) <= MaxValueLen
      /\ pasteValue' = after.value
      /\ selectionStart' = after.caret
      /\ selectionEnd' = after.caret
      /\ lastPaste' = [seen |-> TRUE, htmlData |-> htmlData, textData |-> textData,
                       defaultPrevented |-> h.defaultPrevented,
                       converted |-> h.converted,
                       caught |-> h.caught,
                       handlerInput |-> h.area.inputEvent,
                       nativePaste |-> native,
                       before |-> pasteValue, start |-> selectionStart,
                       end |-> selectionEnd]
      /\ UNCHANGED turndownService
      /\ UNCHANGED <<editorVars, fontVars, genVars, mdVars, tplVars, pvVars, lateVars>>

NextPaste ==
  \/ \E t \in BOOLEAN : NewPasteHandler(t)
  \/ \E s, e \in 0 .. Len(pasteValue) : Select(s, e)
  \/ \E c \in BOOLEAN, h \in HtmlPayloads, t \in TextPayloads, th \in BOOLEAN :
       Paste(c, h, t, th)

SpecPaste == Init /\ [][NextPaste]_vars

\* C19: after a paste event the default paste is suppressed exactly when the
\* conversion of the html payload was applied and its result inserted at the
\* selection; in every other case (among them the conversion throwing) the
\* default is not suppressed and the browser pasted natively.
C19_DefaultSuppressedOnlyWhenConverted ==
  lastPaste.seen =>
    /\ lastPaste.defaultPrevented
         <=> /\ lastPaste.converted
             /\ pasteValue = insertTextAtCursor(lastPaste.before, lastPaste.start,
                                 lastPaste.end, turndown(lastPaste.htmlData)).value
    /\ ~lastPaste.defaultPrevented => lastPaste.nativePaste
    /\ lastPaste.caught => ~lastPaste.defaultPrevented

(***************************************************************************)
(* The debounced preview (js/editor/editor-manager.js).  Time is a clock    *)
(* in units of 100 ms.  A timer's callback runs at the time the timer is   *)
(* due: the clock does not pass a due timer, and a due timer's callback    *)
(* runs before the handler of an event of the same instant.  The rest of   *)
(* the input listener (isModified, the history snapshot) is the Input      *)
(* action of the editor above.                                             *)
(***************************************************************************)

\* the clock stops here
MaxTime == 7

\* at most this many input events
MaxInputs == 3

\* the delay of updatePreviewDebounced: 300 ms
PreviewDelay == 3

\* the values the textarea takes: empty, a paragraph, a table row
PreviewTexts == {<< <<>> >>, << <<"a">> >>, << <<"|", "a", "|">> >>}

\* updatePreview(), given textarea.value: what the preview pane shows
updatePreview(value) ==
  IF isBlankContent(value) THEN [path |-> "placeholder", lines |-> <<>>]
  ELSE [path |-> "parsed", lines |-> preprocessed(removeEmojis(value))]

\* debounce with its clearTimeout left out
debounceNoClear(timers, tid, newId, t, delay) ==
  [timers |-> timers \cup {[id |-> newId, due |-> t + delay]},
   timeoutId |-> newId]

\* one call of the function debounce(func, delay) returned, at time t:
\* clearTimeout(timeoutId), then timeoutId = setTimeout(..., delay)
debounce(timers, tid, newId, t, delay) ==
  [timers |-> {x \in timers : x.id # tid} \cup {[id |-> newId, due |-> t + delay]},
   timeoutId |-> newId]

\* a timer is due
timerDue == \E t \in pvTimers : t.due <= now

\* an input event: the user typed, the textarea holds v; the listener calls
\* updatePreviewDebounced()
InputEvent(v) ==
  /\ ~timerDue
  /\ timerSeq < MaxInputs
  /\ v # pvValue
  /\ pvValue' = v
  /\ LET d == debounce(pvTimers, timeoutId, timerSeq + 1, now, PreviewDelay)
     IN  /\ pvTimers' = d.timers
         /\ timeoutId' = d.timeoutId
  /\ timerSeq' = timerSeq + 1
  /\ previewLog' = Append(previewLog, [kind |-> "input", at |-> now, value |-> v])
  /\ UNCHANGED <<now, pvShown>>
  /\ UNCHANGED <<editorVars, fontVars, genVars, mdVars, tplVars, pasteVars, lateVars>>

\* the callback of a timer of updatePreviewDebounced: () => this.updatePreview()
PreviewTimer ==
  \E t \in pvTimers :
    /\ t.due <= now
    /\ pvTimers' = pvTimers \ {t}
    /\ pvShown' = updatePreview(pvValue)
    /\ previewLog' = Append(previewLog, [kind |-> "render", at |-> now,
                                         shown |-> updatePreview(pvValue)])
    /\ UNCHANGED <<now, pvValue, timeoutId, timerSeq>>
    /\ UNCHANGED <<editorVars, fontVars, genVars, mdVars, tplVars, pasteVars, lateVars>>

\* setContent(content): the value is set by the program (no input event) and
\* the preview is rendered at once
SetContentRender(v) ==
  /\ ~timerDue
  /\ v # pvValue
  /\ pvValue' = v
  /\ pvShown' = updatePreview(v)
  /\ UNCHANGED <<now, pvTimers, timeoutId, timerSeq, previewLog>>
  /\ UNCHANGED <<editorVars, fontVars, genVars, mdVars, tplVars, pasteVars, lateVars>>

\* 100 ms pass
Tick ==
  /\ ~timerDue
  /\ now < MaxTime
  /\ now' = now + 1
  /\ UNCHANGED <<pvValue, pvShown, pvTimers, timeoutId, timerSeq, previewLog>>
  /\ UNCHANGED <<editorVars, fontVars, genVars, mdVars, tplVars, pasteVars, lateVars>>

NextPreview ==
  \/ \E v \in PreviewTexts : InputEvent(v)
  \/ PreviewTimer
  \/ \E v \in PreviewTexts : SetContentRender(v)
  \/ Tick

SpecPreview == Init /\ [][NextPreview]_vars

IsInput(i) == previewLog[i].kind = "input"

IsRender(i) == previewLog[i].kind = "render"

\* the input events after the i-th entry of the log
LaterInputs(i) == {j \in DOMAIN previewLog : j > i /\ IsInput(j)}

\* the next input event after the i-th entry (past the end: there is none)
NextInput(i) ==
  IF LaterInputs(i) = {} THEN Len(previewLog) + 1
  ELSE CHOOSE j \in LaterInputs(i) : \A k \in LaterInputs(i) : j <= k

\* the debounced renders between the i-th entry and the next input event
RendersAfter(i) == i + 1 .. NextInput(i) - 1

\* no debounced render before the first input event; between two input events
\* less than 300 ms apart no render; after the last event of a burst one
\* render, 300 ms after that event (or, for the burst still open, the one
\* timer that will run it, and the clock not past its due time)
OneRenderPerBurst ==
  /\ previewLog # <<>> => IsInput(1)
  /\ \A i \in DOMAIN previewLog : IsInput(i) =>
       IF /\ LaterInputs(i) # {}
          /\ previewLog[NextInput(i)].at - previewLog[i].at < PreviewDelay
         THEN RendersAfter(i) = {}
         ELSE /\ Cardinality(RendersAfter(i)) <= 1
              /\ \A r \in RendersAfter(i) :
                   previewLog[r].at = previewLog[i].at + PreviewDelay
              /\ RendersAfter(i) = {} =>
                   /\ LaterInputs(i) = {}
                   /\ now <= previewLog[i].at + PreviewDelay
                   /\ \E t \in pvTimers : t.due = previewLog[i].at + PreviewDelay
              /\ RendersAfter(i) # {} /\ LaterInputs(i) = {} => pvTimers = {}

\* a debounced render shows the value the textarea holds when it runs
RendersCurrentContent ==
  (/\ Len(previewLog') = Len(previewLog) + 1
   /\ previewLog'[Len(previewLog')].kind = "render")
    => /\ previewLog'[Len(previewLog')].shown = updatePreview(pvValue')
       /\ pvShown' = updatePreview(pvValue')

\* C20: a burst of input events less than 300 ms apart gets exactly one
\* debounced render, 300 ms after its last event and never between two of its
\* events, and the render shows the textarea's value as of the time it runs.
C20_OneRenderPerBurst ==
  [][RendersCurrentContent]_vars /\ []OneRenderPerBurst

\* C20 witness: a burst of two events at different times got its render, and
\* the render shows a value set after the burst's last event
C20_Witness ==
  \E r \in DOMAIN previewLog :
    /\ IsRender(r)
    /\ r > 2
    /\ IsInput(r - 1)
    /\ IsInput(r - 2)
    /\ previewLog[r - 1].at > previewLog[r - 2].at
    /\ previewLog[r].shown # updatePreview(previewLog[r - 1].value)

(***************************************************************************)
(* StorageManager (js/storage/storage-manager.js).  A document is its id   *)
(* and its content.  New documents get ids that were never stored, as      *)
(* Date.now() gives them.  localStorage.setItem may throw (quota).         *)
(***************************************************************************)

\* StorageManager.MAX_DOCUMENTS
MAX_DOCUMENTS == 20

\* at most this many ids are ever handed out
MaxIds == 22

\* at most this many deleteDocument calls
MaxDeletes == 1

\* at most this many stored documents have been updated
MaxUpdated == 1

\* the content of a document when first saved, and after an update
DocContents == <<"a", "b">>

\* the ids of the documents of an array
idsOf(documents) == {documents[k].id : k \in DOMAIN documents}

\* documents.findIndex(d => d.id === id), 1-based (0: not found)
findIndex(documents, id) ==
  IF id \in idsOf(documents)
    THEN CHOOSE k \in DOMAIN documents :
           /\ documents[k].id = id
           /\ \A j \in DOMAIN documents : documents[j].id = id => k <= j
    ELSE 0

\* the array saveDocument writes, with the eviction left out
documentsToWriteNoLimit(documents, document) ==
  LET index == findIndex(documents, document.id)
  IN  IF index > 0 THEN [documents EXCEPT ![index] = document]
      ELSE <<document>> \o documents

\* the array saveDocument hands to localStorage.setItem: an update in place,
\* or unshift and, beyond MAX_DOCUMENTS, pop
documentsToWrite(documents, document) ==
  LET index == findIndex(documents, document.id)
  IN  IF index > 0 THEN [documents EXCEPT ![index] = document]
      ELSE LET unshifted == <<document>> \o documents
           IN  IF Len(unshifted) > MAX_DOCUMENTS
                 THEN SubSeq(unshifted, 1, Len(unshifted) - 1)
                 ELSE unshifted

\* StorageManager.saveDocument(document): the stored array afterwards and the
\* value returned.  throws: setItem raises.
saveDocument(documents, document, throws) ==
  IF throws THEN [stored |-> documents, returned |-> FALSE]
  ELSE [stored |-> documentsToWrite(documents, document), returned |-> TRUE]

\* StorageManager.deleteDocument(id)
deleteDocument(documents, id, throws) ==
  IF throws THEN [stored |-> documents, returned |-> FALSE]
  ELSE [stored |-> SelectSeq(documents, LAMBDA d : d.id # id), returned |-> TRUE]

\* StorageManager.getRecentDocuments(count)
getRecentDocuments(documents, count) ==
  SubSeq(documents, 1, IF count < Len(documents) THEN count ELSE Len(documents))

\* the ids in order of addition, after the stored array became documents
addedAfter(added, documents) ==
  SelectSeq(added, LAMBDA i : i \in idsOf(documents))
    \o (IF documents # <<>> /\ documents[1].id \notin {added[k] : k \in DOMAIN added}
          THEN <<documents[1].id>> ELSE <<>>)

\* the next id Date.now() gives
freshId == stIds + 1

\* the documents a caller picks to update or to delete: the one stored
\* first and the one stored last
Picked == IF store = <<>> THEN {} ELSE {store[1].id, store[Len(store)].id}

\* saveDocument with a document not yet stored
SaveNew(throws) ==
  /\ freshId <= MaxIds
  /\ LET document == [id |-> freshId, content |-> DocContents[1]]
         r == saveDocument(store, document, throws)
     IN  /\ store' = r.stored
         /\ stAdded' = addedAfter(stAdded, r.stored)
         /\ stLast' = [op |-> "save", id |-> document.id, ok |-> r.returned]
  /\ stIds' = IF throws THEN stIds ELSE freshId
  /\ UNCHANGED stDeletes
  /\ UNCHANGED <<earlyVars, notSt>>

\* saveDocument with a stored document's id and new content
SaveUpdate(id, throws) ==
  /\ Cardinality({k \in DOMAIN store : store[k].content = DocContents[2]}) < MaxUpdated
  /\ LET document == [id |-> id, content |-> DocContents[2]]
         r == saveDocument(store, document, throws)
     IN  /\ store' = r.stored
         /\ stAdded' = addedAfter(stAdded, r.stored)
         /\ stLast' = [op |-> "save", id |-> id, ok |-> r.returned]
  /\ UNCHANGED <<stIds, stDeletes>>
  /\ UNCHANGED <<earlyVars, notSt>>

\* deleteDocument(id)
DeleteDocument(id, throws) ==
  /\ stDeletes < MaxDeletes
  /\ LET r == deleteDocument(store, id, throws)
     IN  /\ store' = r.stored
         /\ stAdded' = addedAfter(stAdded, r.stored)
         /\ stLast' = [op |-> "delete", id |-> id, ok |-> r.returned]
  /\ stDeletes' = stDeletes + 1
  /\ UNCHANGED stIds
  /\ UNCHANGED <<earlyVars, notSt>>

NextStorage ==
  \/ \E th \in BOOLEAN : SaveNew(th)
  \/ \E id \in Picked, th \in BOOLEAN : SaveUpdate(id, th)
  \/ \E id \in Picked, th \in BOOLEAN : DeleteDocument(id, th)

SpecStorage == Init /\ [][NextStorage]_vars

\* a step that is a successful save of an id not stored, with MAX_DOCUMENTS
\* documents stored
SavedNewWhenFull ==
  /\ Len(store) = MAX_DOCUMENTS
  /\ stLast'.op = "save" /\ stLast'.ok
  /\ stLast' # stLast \/ store' # store
  /\ stLast'.id \notin idsOf(store)

\* C21: at most 20 documents are stored; a save of a new id while 20 are
\* stored removes exactly one document, the one added to the store earliest,
\* and stores the new one.
C21_CapacityAndOldestEvicted ==
  /\ [](Len(store) <= MAX_DOCUMENTS)
  /\ [][SavedNewWhenFull =>
          /\ idsOf(store) \ idsOf(store') = {Head(stAdded)}
          /\ idsOf(store') \ idsOf(store) = {stLast'.id}
          /\ Len(store') = MAX_DOCUMENTS]_vars

\* C21 witness: 20 documents are stored and the latest call stored a new
\* one although more than 20 ids had been stored and not deleted: one was
\* evicted, after a deleteDocument call had changed which one is the oldest
C21_Witness ==
  /\ Len(store) = MAX_DOCUMENTS
  /\ stLast.op = "save" /\ stLast.ok
  /\ store[1].id = stLast.id
  /\ stLast.id = stIds
  /\ stDeletes > 0
  /\ stIds - stDeletes > MAX_DOCUMENTS

\* C30: after a successful save, the first document getRecentDocuments
\* returns is the document just saved, whether the save added or updated it.
C30_MostRecentlySavedFirst ==
  (stLast.op = "save" /\ stLast.ok) =>
    /\ getRecentDocuments(store, 1) # <<>>
    /\ getRecentDocuments(store, 1)[1].id = stLast.id

(***************************************************************************)
(* EditorManager.saveDocument and auto-save (js/editor/editor-manager.js). *)
(* The clock counts the time since the interval timer last fired, in       *)
(* units of 10 s; the timer's callback runs when 30 s have passed.  The    *)
(* rest of the input listener is modelled with the history and the         *)
(* preview above.                                                          *)
(***************************************************************************)

\* this.autoSaveInterval: 30000 ms
autoSaveInterval == 3

\* at most this many documents are created by the editor
MaxCreated == 2

\* what the user types
SaveTexts == {"a", "b"}

\* EditorManager.saveDocument with the success of the storage call ignored
editorSaveIgnoringFailure(value, current, modified, documents, newId, throws) ==
  LET document == [id |-> IF current.id # 0 THEN current.id ELSE newId,
                   content |-> value]
      r == saveDocument(documents, document, throws)
  IN  [document |-> document, stored |-> r.stored, success |-> r.returned,
       currentDocument |-> document, isModified |-> FALSE]

\* EditorManager.saveDocument(isAutoSave): the document it builds, the store
\* afterwards, and the editor's fields afterwards
editorSave(value, current, modified, documents, newId, throws) ==
  LET document == [id |-> IF current.id # 0 THEN current.id ELSE newId,
                   content |-> value]
      r == saveDocument(documents, document, throws)
  IN  [document |-> document, stored |-> r.stored, success |-> r.returned,
       currentDocument |-> IF r.returned THEN document ELSE current,
       isModified |-> IF r.returned THEN FALSE ELSE modified]

\* the editor's saveDocument as a step
DoSave(throws) ==
  /\ LET e == editorSave(svValue, currentDocument, svIsModified, store, freshId, throws)
     IN  /\ store' = e.stored
         /\ stAdded' = addedAfter(stAdded, e.stored)
         /\ stIds' = IF e.success /\ e.document.id = freshId THEN freshId ELSE stIds
         /\ stLast' = [op |-> "save", id |-> e.document.id, ok |-> e.success]
         /\ currentDocument' = e.currentDocument
         /\ svIsModified' = e.isModified
  /\ UNCHANGED <<svValue, stDeletes>>

\* the input listener, as far as saving goes: this.isModified = true
Type(v) ==
  /\ v # svValue
  /\ svValue' = v
  /\ svIsModified' = TRUE
  /\ UNCHANGED <<currentDocument, svClock, lastSaveKind>>
  /\ UNCHANGED <<earlyVars, notSv>>

\* the save-document event (button or shortcut): saveDocument(false)
ManualSave(throws) ==
  /\ DoSave(throws)
  /\ lastSaveKind' = "manual"
  /\ UNCHANGED svClock
  /\ UNCHANGED <<earlyVars, notStSv>>

\* the interval callback with its test of this.isModified left out
tickSavesAlways(modified) == TRUE

\* the interval callback calls saveDocument(true): if (this.isModified)
tickSaves(modified) == modified

\* the callback of the auto-save interval timer
AutoSaveTick(throws) ==
  /\ svClock = autoSaveInterval
  /\ svClock' = 0
  /\ IF tickSaves(svIsModified)
       THEN DoSave(throws) /\ lastSaveKind' = "auto"
       ELSE UNCHANGED <<svValue, currentDocument, svIsModified, lastSaveKind, stVars>>
  /\ UNCHANGED <<earlyVars, notStSv>>

\* 10 s pass; the interval timer fires before the clock passes its period
Advance ==
  /\ svClock < autoSaveInterval
  /\ svClock' = svClock + 1
  /\ UNCHANGED <<svValue, currentDocument, svIsModified, lastSaveKind>>
  /\ UNCHANGED <<earlyVars, notSv>>

\* loadDocument(document), with a document from the document list
OpenStored(k) ==
  /\ currentDocument' = store[k]
  /\ svValue' = store[k].content
  /\ svIsModified' = FALSE
  /\ UNCHANGED <<svClock, lastSaveKind>>
  /\ UNCHANGED <<earlyVars, notSv>>

\* newDocument(), the user confirming if asked
StartNew ==
  /\ stIds < MaxCreated
  /\ currentDocument' = NoDocument
  /\ svValue' = ""
  /\ svIsModified' = FALSE
  /\ UNCHANGED <<svClock, lastSaveKind>>
  /\ UNCHANGED <<earlyVars, notSv>>

NextSave ==
  \/ \E v \in SaveTexts : Type(v)
  \/ \E th \in BOOLEAN : ManualSave(th)
  \/ \E th \in BOOLEAN : AutoSaveTick(th)
  \/ Advance
  \/ \E k \in DOMAIN store : OpenStored(k)
  \/ StartNew

SpecSave == Init /\ [][NextSave]_vars

\* the latest storage call is a save that failed, made by this step
SaveFailed ==
  /\ stLast'.op = "save"
  /\ ~stLast'.ok
  /\ stLast' # stLast

\* C22: when the write to local storage fails the storage manager reports
\* false and the stored documents stay as they were, and the editor keeps its
\* current document and its modified flag.
C22_FailedSaveChangesNothing ==
  [][SaveFailed => /\ store' = store
                   /\ currentDocument' = currentDocument
                   /\ svIsModified' = svIsModified]_vars

\* C22 witness: the latest save failed while the editor holds modified
\* content of a stored document, which is stored with its old content
C22_Witness ==
  /\ stLast.op = "save" /\ ~stLast.ok
  /\ svIsModified
  /\ currentDocument.id # 0
  /\ stLast.id = currentDocument.id
  /\ \E k \in DOMAIN store :
       store[k].id = currentDocument.id /\ store[k].content # svValue

\* the steps of the editor while every write to local storage succeeds
NextAutoSave ==
  \/ \E v \in SaveTexts : Type(v)
  \/ ManualSave(FALSE)
  \/ AutoSaveTick(FALSE)
  \/ Advance
  \/ \E k \in DOMAIN store : OpenStored(k)
  \/ StartNew

\* time passes and the interval timer's callback runs when it is due
SpecAutoSave ==
  Init /\ [][NextAutoSave]_vars /\ WF_vars(Advance) /\ WF_vars(AutoSaveTick(FALSE))

\* the editor's content is stored as the current document
Persisted ==
  /\ ~svIsModified
  /\ currentDocument.id # 0
  /\ currentDocument.content = svValue
  /\ \E k \in DOMAIN store : store[k] = currentDocument

\* a step of the interval timer's callback
TickStep == svClock = autoSaveInterval /\ svClock' = 0

Libraries == {"katex", "mermaid", "hljs"}

\* the steps after this.preview.innerHTML = html, in order: the script each
\* needs ("none": part of the editor) and whether it has a try block of its own
Enhancements ==
  << [name |-> "styles", needs |-> "none", ownTry |-> FALSE],
     [name |-> "math", needs |-> "katex", ownTry |-> TRUE],
     [name |-> "diagram", needs |-> "mermaid", ownTry |-> TRUE],
     [name |-> "highlight", needs |-> "hljs", ownTry |-> FALSE],
     [name |-> "checkbox", needs |-> "none", ownTry |-> FALSE] >>

\* the enhancements the claim names
Optional == {"math", "diagram", "highlight", "checkbox"}

\* the steps from the k-th on, given the preview so far: an exception that
\* no try block of the step catches reaches the catch of updatePreview, which
\* replaces the preview by the error message
RECURSIVE enhanceFrom(_, _, _, _)
enhanceFrom(k, libs, failing, st) ==
  IF k > Len(Enhancements) THEN st
  ELSE LET e == Enhancements[k]
       IN  IF e.needs # "none" /\ e.needs \notin libs
             THEN enhanceFrom(k + 1, libs, failing, st)
           ELSE IF e.name \notin failing
             THEN enhanceFrom(k + 1, libs, failing,
                              [st EXCEPT !.ran = @ \cup {e.name}])
           ELSE IF e.ownTry
             THEN enhanceFrom(k + 1, libs, failing, st)
           ELSE [shown |-> "error", ran |-> st.ran]

\* updatePreview(), for blank and for other content
renderPreview(blank, libs, failing) ==
  IF blank THEN [shown |-> "placeholder", ran |-> {}]
  ELSE enhanceFrom(1, libs, failing, [shown |-> "parsed", ran |-> {}])

\* the page is loaded with some of the optional scripts
LoadPage(libs) ==
  /\ libraries' = libs
  /\ enhShown' = "placeholder"
  /\ enhRan' = {}
  /\ enhFailing' = {}
  /\ UNCHANGED <<earlyVars, notEnh>>

\* updatePreview() runs; failing: the enhancements that throw this time
RenderPreview(blank, failing) ==
  /\ LET r == renderPreview(blank, libraries, failing)
     IN  /\ enhShown' = r.shown
         /\ enhRan' = r.ran
  /\ enhFailing' = failing
  /\ UNCHANGED libraries
  /\ UNCHANGED <<earlyVars, notEnh>>

NextEnhance ==
  \/ \E libs \in SUBSET Libraries : LoadPage(libs)
  \/ \E blank \in BOOLEAN, failing \in SUBSET {"styles", "math", "diagram",
                                                "highlight", "checkbox"} :
       RenderPreview(blank, failing)

SpecEnhance == Init /\ [][NextEnhance]_vars

\* the enhancements that are run at all with the scripts loaded
Available ==
  {Enhancements[k].name : k \in {j \in DOMAIN Enhancements :
      Enhancements[j].needs = "none" \/ Enhancements[j].needs \in libraries}}

\* C24: when exactly one of math, diagrams, highlighting and checkbox wiring
\* fails in a render of content that is not blank, the parsed HTML stays in
\* the preview and every other enhancement still runs.
C24_EnhancementFailureNotFatal ==
  (/\ enhShown # "placeholder"
   /\ Cardinality(enhFailing) = 1
   /\ enhFailing \subseteq Optional \cap Available)
    => /\ enhShown = "parsed"
       /\ enhRan = Available \ enhFailing

(***************************************************************************)
(* saveHistoryState on histories whose entries all differ: the k-th        *)
(* snapshot recorded has the content k, so that entries can be told apart. *)
(***************************************************************************)

\* the history after n different texts were typed and snapshotted
typedHistory(n) == [k \in 1 .. n |-> HistoryEntry(k, 0, 0)]

\* the user typed n different texts, each recorded, and then undid so that
\* the cursor is at i
ReachHistory(n, i) ==
  /\ ~hsCall.made
  /\ hsHistory = <<>>
  /\ hsHistory' = typedHistory(n)
  /\ hsIndex' = i
  /\ UNCHANGED hsCall
  /\ UNCHANGED <<earlyVars, notHs>>

\* the contents a snapshot is recorded with: a text never typed (0) or the
\* text of some entry
SnapshotContents == {0} \cup {hsHistory[k].content : k \in DOMAIN hsHistory}

\* saveHistoryState(c, 0, 0) is called
RecordSnapshot(c) ==
  /\ ~hsCall.made
  /\ LET r == saveHistoryState(hsHistory, hsIndex, c, 0, 0)
     IN  /\ hsHistory' = r.history
         /\ hsIndex' = r.historyIndex
  /\ hsCall' = [made |-> TRUE, content |-> c, history |-> hsHistory, historyIndex |-> hsIndex]
  /\ UNCHANGED <<earlyVars, notHs>>

NextHistory ==
  \/ \E n \in 1 .. maxHistoryLength : \E i \in 0 .. n - 1 : ReachHistory(n, i)
  \/ \E c \in SnapshotContents : RecordSnapshot(c)

SpecHistory == Init /\ [][NextHistory]_vars

\* the call's content differs from the entry at the cursor before the call
DiffersAtCursor ==
  \/ hsCall.history = <<>>
  \/ hsCall.history[hsCall.historyIndex + 1].content # hsCall.content

\* the entries up to the cursor before the call, and the new snapshot
KeptAndNew ==
  Append(SubSeq(hsCall.history, 1, hsCall.historyIndex + 1),
         HistoryEntry(hsCall.content, 0, 0))

\* C25: after a snapshot whose content differs from the entry at the cursor
\* was recorded, the snapshot is the last entry and historyIndex points at
\* it, the entries that followed the cursor are gone, and the history is the
\* entries up to the cursor and the snapshot, in order, without the oldest
\* one if that would be 51 entries.
C25_SnapshotAppendedAtCursor ==
  (hsCall.made /\ DiffersAtCursor) =>
    /\ hsHistory # <<>>
    /\ hsHistory[Len(hsHistory)] = HistoryEntry(hsCall.content, 0, 0)
    /\ hsIndex = Len(hsHistory) - 1
    /\ \A k \in hsCall.historyIndex + 2 .. Len(hsCall.history) :
         \A j \in 1 .. Len(hsHistory) - 1 : hsHistory[j] # hsCall.history[k]
    /\ hsHistory = IF Len(KeptAndNew) > maxHistoryLength
                     THEN Tail(KeptAndNew) ELSE KeptAndNew
    /\ Len(hsHistory) <= maxHistoryLength

\* C25 witness: a snapshot was recorded with the cursor at the tail of a full
\* history, and the oldest entry went
C25_Witness ==
  /\ hsCall.made
  /\ DiffersAtCursor
  /\ Len(hsCall.history) = maxHistoryLength
  /\ hsCall.historyIndex = maxHistoryLength - 1
  /\ hsHistory[1] = hsCall.history[2]

(***************************************************************************)
(* The history across loadDocument and newDocument: the handlers of the    *)
(* editor above on a short history, with the entries that were recorded    *)
(* before the content was last replaced counted.  The modified flag is     *)
(* followed by the editor above.                                           *)
(***************************************************************************)

\* at most this many entries are recorded
MaxSnapshots == 3

\* what the user types, and the content of the document that is loaded
TypedTexts == {"p", "q"}

LoadedTexts == {"doc"}

\* the stale entries left after saveHistoryState(c) on history h at index i
\* of which the first stale entries were stale
staleAfterSave(h, i, c, stale) ==
  LET kept == IF i < Len(h) - 1 THEN i + 1 ELSE Len(h)
      left == IF stale < kept THEN stale ELSE kept
      pushed == ~(kept > 0 /\ h[kept].content = c)
  IN  IF pushed /\ kept + 1 > maxHistoryLength /\ left > 0 THEN left - 1 ELSE left

\* the textarea's input listener, after an edit that left the value c
DhInput(c) ==
  /\ c # dhContent
  /\ dhContent' = c
  /\ IF ~dhHandling
       THEN /\ dhPending' = <<c>>
            /\ dhAhead' = dhCooldowns
       ELSE UNCHANGED <<dhPending, dhAhead>>
  /\ UNCHANGED <<dhHistory, dhIndex, dhHandling, dhCooldowns, dhStale, dhRestore>>
  /\ UNCHANGED <<earlyVars, notDh>>

\* the 500 ms timer of saveHistoryDebounced expires and calls saveHistoryState
DhSnapshotTimer ==
  /\ dhPending # <<>>
  /\ dhAhead = 0
  /\ Len(dhHistory) < MaxSnapshots
  /\ LET c == dhPending[1]
         r == saveHistoryState(dhHistory, dhIndex, c, 0, 0)
     IN  /\ dhHistory' = r.history
         /\ dhIndex' = r.historyIndex
         /\ dhStale' = staleAfterSave(dhHistory, dhIndex, c, dhStale)
  /\ dhPending' = <<>>
  /\ UNCHANGED <<dhContent, dhHandling, dhCooldowns, dhAhead, dhRestore>>
  /\ UNCHANGED <<earlyVars, notDh>>

\* undo() (back TRUE) or redo(): the cursor moves and applyHistoryState runs
DhUndoRedo(back) ==
  /\ dhCooldowns < MaxCooldowns
  /\ IF back THEN canUndo(dhHistory, dhIndex) ELSE canRedo(dhHistory, dhIndex)
  /\ LET i == IF back THEN undoIndex(dhHistory, dhIndex)
                      ELSE redoIndex(dhHistory, dhIndex)
     IN  /\ dhIndex' = i
         /\ dhContent' = restoredContent(dhHistory, i, dhContent)
         /\ dhRestore' = [made |-> TRUE, stale |-> i + 1 <= dhStale]
  /\ dhHandling' = TRUE
  /\ dhCooldowns' = dhCooldowns + 1
  /\ UNCHANGED <<dhHistory, dhPending, dhAhead, dhStale>>
  /\ UNCHANGED <<earlyVars, notDh>>

\* the 10 ms timer armed by applyHistoryState expires
DhCooldownFires ==
  /\ dhCooldowns > 0
  /\ dhHandling' = FALSE
  /\ dhCooldowns' = dhCooldowns - 1
  /\ dhAhead' = IF dhAhead > 0 THEN dhAhead - 1 ELSE 0
  /\ UNCHANGED <<dhContent, dhHistory, dhIndex, dhPending, dhStale, dhRestore>>
  /\ UNCHANGED <<earlyVars, notDh>>

\* loadDocument(document) with document.content = c, or newDocument() (c
\* empty): the content is replaced; every entry now in the history is stale
DhReplace(c) ==
  /\ dhContent' = c
  /\ dhStale' = Len(dhHistory)
  /\ dhRestore' = NoRestore
  /\ UNCHANGED <<dhHistory, dhIndex, dhHandling, dhPending, dhCooldowns, dhAhead>>
  /\ UNCHANGED <<earlyVars, notDh>>

NextReplace ==
  \/ \E c \in TypedTexts : DhInput(c)
  \/ DhSnapshotTimer
  \/ \E back \in BOOLEAN : DhUndoRedo(back)
  \/ DhCooldownFires
  \/ \E c \in LoadedTexts \cup {""} : DhReplace(c)

SpecReplace == Init /\ [][NextReplace]_vars

\* C26: after loadDocument or newDocument replaced the content, no undo or
\* redo restores an entry that was recorded before the replacement.
C26_NoStaleRestore ==
  ~(dhRestore.made /\ dhRestore.stale)
(***************************************************************************)
(* PDFGenerator.renderList: a paragraph and then a list are rendered into  *)
(* a new document.  Lengths are in 1/100 pt, as above.  A piece of text    *)
(* that is drawn is recorded with the page it lands on and its vertical    *)
(* position.                                                               *)
(***************************************************************************)

\* the paragraph before the list has up to this many wrapped lines
MaxParagraphLines == 36

\* the lists that are rendered: for each <li> the number of lines its text
\* wraps to, 0 for an item whose trimmed text is empty
ListItems ==
  {<<1>>, <<2, 1>>, <<1, 0, 2>>, <<3, 3, 3>>, <<1, 1, 1, 1, 1, 1, 1, 1>>}

\* const prefix = isOrdered ? (index + 1) + '.' : the bullet character
prefixOf(ordered, index) == IF ordered THEN ToString(index + 1) \o "." ELSE "bullet"

\* the prefix as a piece of item k, and line j of its wrapped text
PrefixPiece(k, ordered) ==
  [item |-> k, kind |-> "prefix", line |-> 0, text |-> prefixOf(ordered, k - 1)]

LinePiece(k, j) == [item |-> k, kind |-> "line", line |-> j, text |-> "text"]

\* a line of the paragraph before the list
ParagraphPiece == [item |-> 0, kind |-> "paragraph", line |-> 0, text |-> "text"]

\* one turn of lines.forEach in renderList: the page-break check, the text,
\* the advance of the cursor
drawListLine(L, d, t, k, j) ==
  LET L1 == IF L.y + lineHeightOf(t) > PageHeight - t.margin.bottom
              THEN addPage(L, d, t) ELSE L
      L2 == drawText(L1, d, LinePiece(k, j))
  IN  [L2 EXCEPT !.y = @ + lineHeightOf(t)]

RECURSIVE drawListLines(_, _, _, _, _, _)
\* lines.forEach in renderList, from line j of the n lines of item k (the test
\* on the cursor only makes TLC compute each line before the next)
drawListLines(j, n, L, d, t, k) ==
  IF j > n THEN L
  ELSE LET N == drawListLine(L, d, t, k, j)
       IN  IF N.y >= 0 THEN drawListLines(j + 1, n, N, d, t, k) ELSE N

\* one turn of items.forEach in renderList, for item k: nothing for an empty
\* text, else the prefix at the cursor and then the wrapped lines
drawItem(items, ordered, k, L, d, t) ==
  IF items[k] = 0 THEN L
  ELSE LET L1 == drawText(L, d, PrefixPiece(k, ordered))
       IN  drawListLines(1, items[k], L1, d, t, k)

RECURSIVE drawItems(_, _, _, _, _, _)
\* items.forEach in renderList, from item k on
drawItems(items, ordered, k, L, d, t) ==
  IF k > Len(items) THEN L
  ELSE LET N == drawItem(items, ordered, k, L, d, t)
       IN  IF N.y >= 0 THEN drawItems(items, ordered, k + 1, N, d, t) ELSE N

\* renderList(element)
renderList(items, ordered, L, d, t) ==
  LET L1 == drawItems(items, ordered, 1, L, d, t)
  IN  [L1 EXCEPT !.y = @ + t.fontSize \div 2]

\* renderElement, for a <ul> or <ol> element
renderListElement(items, ordered, L, d, t) ==
  LET L0 == IF L.y > PageHeight - t.margin.bottom - 5000
              THEN addPage(L, d, t) ELSE L
  IN  renderList(items, ordered, L0, d, t)

\* generate up to renderContent: a new document, the cursor at the top margin
ListExportStart(tn) ==
  /\ lsPc = "idle"
  /\ lsPc' = "started"
  /\ lsTemplate' = tn
  /\ lsLayout' = [y |-> Template(tn).margin.top, pn |-> 1, ds |-> <<NewDoc>>]
  /\ UNCHANGED lsList
  /\ UNCHANGED <<earlyVars, notLs>>

\* renderContent: renderElement for a <p> element of n wrapped lines
ListRenderParagraph(n) ==
  /\ lsPc = "started"
  /\ lsPc' = "para"
  /\ lsLayout' = renderElement(n, lsLayout, 1, Template(lsTemplate), ParagraphPiece)
  /\ UNCHANGED <<lsTemplate, lsList>>
  /\ UNCHANGED <<earlyVars, notLs>>

\* renderContent: renderElement for the list that follows
ListRenderList(ordered, items) ==
  /\ lsPc = "para"
  /\ lsPc' = "list"
  /\ lsList' = [ordered |-> ordered, items |-> items]
  /\ lsLayout' = renderListElement(items, ordered, lsLayout, 1, Template(lsTemplate))
  /\ UNCHANGED lsTemplate
  /\ UNCHANGED <<earlyVars, notLs>>

NextList ==
  \/ \E tn \in Templates : ListExportStart(tn)
  \/ \E n \in 1 .. MaxParagraphLines : ListRenderParagraph(n)
  \/ \E o \in BOOLEAN, items \in ListItems : ListRenderList(o, items)

SpecList == Init /\ [][NextList]_vars

\* the pieces drawn for the list, and those of item k of a kind
ListPieces ==
  {p \in {lsLayout.ds[1].text[i] : i \in DOMAIN lsLayout.ds[1].text} :
     p.owner.kind # "paragraph"}

PiecesOf(k, kind, line) ==
  {p \in ListPieces : p.owner.item = k /\ p.owner.kind = kind /\ p.owner.line = line}

\* a piece lies where the page-break check lets a line be drawn
AboveBottomMargin(p) ==
  p.y + lineHeightOf(Template(lsTemplate)) <=
    PageHeight - Template(lsTemplate).margin.bottom

\* C27: for every list item rendered into the PDF, the prefix (the bullet or
\* the 1-based index followed by a period) is drawn on the same page and at the
\* same vertical position as the first wrapped line of the item, and every
\* piece of the item, the prefix included, is placed where the page-break check
\* allows it, above the bottom margin
C27_PrefixWithFirstLine ==
  lsPc = "list" =>
    /\ \A k \in DOMAIN lsList.items :
         lsList.items[k] > 0 =>
           /\ \E p \in PiecesOf(k, "prefix", 0) :
                p.owner.text = prefixOf(lsList.ordered, k - 1)
           /\ \A p \in PiecesOf(k, "prefix", 0), q \in PiecesOf(k, "line", 1) :
                p.page = q.page /\ p.y = q.y
    /\ \A p \in ListPieces : AboveBottomMargin(p)

(***************************************************************************)
(* ModalManager: show, close, the 200 ms timer of close, the 10 ms timer   *)
(* of show and the Escape key.  A modal element is the number createModal  *)
(* made it as.  Timers of the same delay fire in the order they were       *)
(* armed; nothing else is assumed about time.                              *)
(***************************************************************************)

\* at most this many modal elements are created
MaxModals == 4

\* at most this many timers of close are pending
MaxClosing == 3

\* modal.classList.remove('active') on element el
removeActive(attached, el) ==
  {IF e.el = el THEN [e EXCEPT !.active = FALSE] ELSE e : e \in attached}

\* close(id), on M = [attached, closing]: nothing for an id that is not
\* registered, else the class is removed and the 200 ms timer armed
close(M, id) ==
  IF modals[id] = 0 THEN M
  ELSE [attached |-> removeActive(M.attached, modals[id]),
        closing |-> Append(M.closing, [id |-> id, el |-> modals[id]])]

RECURSIVE closeTimes(_, _, _)
\* close(id) called n times in one task
closeTimes(n, M, id) == IF n = 0 THEN M ELSE closeTimes(n - 1, close(M, id), id)

\* show(id, options)
Show(id) ==
  /\ mmCreated < MaxModals
  /\ Len(mmClosing) < MaxClosing
  /\ LET M == IF activeModal # "null"
                THEN close([attached |-> mmAttached, closing |-> mmClosing], activeModal)
                ELSE [attached |-> mmAttached, closing |-> mmClosing]
         modal == mmCreated + 1
     IN  /\ mmCreated' = modal
         /\ mmAttached' = M.attached \cup {[el |-> modal, id |-> id, active |-> FALSE]}
         /\ mmClosing' = M.closing
         /\ modals' = [modals EXCEPT ![id] = modal]
         /\ activeModal' = id
         /\ mmActivating' = mmActivating \cup {modal}
         /\ mmKeyHandlers' = [mmKeyHandlers EXCEPT ![id] = @ + 1]
  /\ UNCHANGED <<earlyVars, notMm>>

\* the 10 ms timer of show: modal.classList.add('active')
ActivateTimer(el) ==
  /\ el \in mmActivating
  /\ mmActivating' = mmActivating \ {el}
  /\ mmAttached' = {IF e.el = el THEN [e EXCEPT !.active = TRUE] ELSE e : e \in mmAttached}
  /\ UNCHANGED <<modals, activeModal, mmClosing, mmKeyHandlers, mmCreated>>
  /\ UNCHANGED <<earlyVars, notMm>>

\* close(id): the close button or the backdrop of a modal made for id, a
\* button with the action 'close', or a caller of the manager
Close(id) ==
  /\ Len(mmClosing) < MaxClosing
  /\ LET M == close([attached |-> mmAttached, closing |-> mmClosing], id)
     IN  /\ mmAttached' = M.attached
         /\ mmClosing' = M.closing
  /\ UNCHANGED <<modals, activeModal, mmActivating, mmKeyHandlers, mmCreated>>
  /\ UNCHANGED <<earlyVars, notMm>>

\* keydown of Escape: every listener added for the active id closes it and
\* removes itself
Escape ==
  /\ activeModal # "null"
  /\ mmKeyHandlers[activeModal] > 0
  /\ Len(mmClosing) + mmKeyHandlers[activeModal] <= MaxClosing
  /\ LET M == closeTimes(mmKeyHandlers[activeModal],
                         [attached |-> mmAttached, closing |-> mmClosing], activeModal)
     IN  /\ mmAttached' = M.attached
         /\ mmClosing' = M.closing
  /\ mmKeyHandlers' = [mmKeyHandlers EXCEPT ![activeModal] = 0]
  /\ UNCHANGED <<modals, activeModal, mmActivating, mmCreated>>
  /\ UNCHANGED <<earlyVars, notMm>>

\* the 200 ms timer of close: the element is removed, the entry of the id
\* deleted, activeModal reset if it is the id
CloseTimer ==
  /\ mmClosing # <<>>
  /\ LET t == Head(mmClosing)
     IN  /\ mmAttached' = {e \in mmAttached : e.el # t.el}
         /\ modals' = [modals EXCEPT ![t.id] = 0]
         /\ activeModal' = IF activeModal = t.id THEN "null" ELSE activeModal
  /\ mmClosing' = Tail(mmClosing)
  /\ UNCHANGED <<mmActivating, mmKeyHandlers, mmCreated>>
  /\ UNCHANGED <<earlyVars, notMm>>

NextModal ==
  \/ \E id \in ModalIds : Show(id)
  \/ \E el \in 1 .. MaxModals : ActivateTimer(el)
  \/ \E id \in ModalIds : Close(id)
  \/ Escape
  \/ CloseTimer

SpecModal == Init /\ [][NextModal]_vars

\* the elements a pending timer of close will remove, and the attached
\* elements that are still open
BeingClosed == {mmClosing[i].el : i \in DOMAIN mmClosing}

StillOpen == {e \in mmAttached : e.el \notin BeingClosed}

\* C28: in every reachable state of the modal manager, each modal element
\* attached to the page (and not within its closing delay) is registered in
\* the modals map under its id, so that close(id) can still remove it, and
\* activeModal names the most recently shown modal that is still open; this
\* holds also when show(id) is called again for an id whose previous modal is
\* within its 200 ms closing delay
C28_AttachedRegisteredAndActive ==
  /\ \A e \in StillOpen : modals[e.id] = e.el
  /\ \A e \in StillOpen :
       (\A f \in StillOpen : f.el <= e.el) => activeModal = e.id

(***************************************************************************)
(* EditorManager.toggleCheckboxInMarkdown: the change listener that        *)
(* setupCheckboxes puts on the checkbox at position index of the preview.  *)
(* Strings are sequences of characters, as above.                          *)
(***************************************************************************)

\* the contents have up to this many lines
MaxCbLines == 3

\* the lines the contents are made of: "- [ ] a", "* [x] a", " +  [X]",
\* "1. [ ] a" and the empty line
CbLines ==
  {<<"-", " ", "[", " ", "]", " ", "a">>,
   <<"*", " ", "[", "x", "]", " ", "a">>,
   <<" ", "+", " ", " ", "[", "X", "]">>,
   <<"1", ".", " ", "[", " ", "]", " ", "a">>,
   <<>>}

RECURSIVE join(_, _)
\* Array.prototype.join, for a one-character separator
join(lines, c) ==
  IF lines = <<>> THEN <<>>
  ELSE IF Len(lines) = 1 THEN lines[1]
  ELSE lines[1] \o <<c>> \o join(Tail(lines), c)

\* the contents: up to MaxCbLines lines joined by line feeds
CbContents ==
  UNION {{join(ls, "\n") : ls \in [1 .. n -> CbLines]} : n \in 1 .. MaxCbLines}

\* line.match(/^(\s*[-*+]\s+)\[([ xX])\]/): 0 for no match, else the place
\* of the opening bracket, which is where the first group ends
matchCheckbox(line) ==
  LET i == skipSpaces(line, 1)
      j == skipSpaces(line, i + 1)
  IN  IF /\ i <= Len(line)
         /\ line[i] \in {"-", "*", "+"}
         /\ j > i + 1
         /\ j + 2 <= Len(line)
         /\ line[j] = "["
         /\ line[j + 1] \in {" ", "x", "X"}
         /\ line[j + 2] = "]"
        THEN j ELSE 0

\* line.replace(the pattern, '$1[' + (checked ? 'x' : ' ') + ']')
replaceCheckbox(line, checked) ==
  LET j == matchCheckbox(line)
  IN  IF j = 0 THEN line
      ELSE SubSeq(line, 1, j - 1) \o <<"[", IF checked THEN "x" ELSE " ", "]">>
             \o SubSeq(line, j + 3, Len(line))

\* a loop body that counts every line, matching or not
toggleLineCountingEveryLine(S, i, index, checked) ==
  IF matchCheckbox(S.lines[i]) # 0 /\ S.checkboxCount = index
    THEN [S EXCEPT !.lines[i] = replaceCheckbox(@, checked), !.done = TRUE]
    ELSE [S EXCEPT !.checkboxCount = @ + 1]

\* the body of the for loop of toggleCheckboxInMarkdown, for line i, on
\* S = [lines, checkboxCount, done] (done: the loop was left by break)
toggleLine(S, i, index, checked) ==
  IF matchCheckbox(S.lines[i]) # 0
    THEN IF S.checkboxCount = index
           THEN [S EXCEPT !.lines[i] = replaceCheckbox(@, checked), !.done = TRUE]
           ELSE [S EXCEPT !.checkboxCount = @ + 1]
    ELSE S

RECURSIVE toggleLoop(_, _, _, _)
\* the for loop of toggleCheckboxInMarkdown, from line i on
toggleLoop(S, i, index, checked) ==
  IF i > Len(S.lines) \/ S.done THEN S
  ELSE toggleLoop(toggleLine(S, i, index, checked), i + 1, index, checked)

\* toggleCheckboxInMarkdown(index, checked): the new textarea.value
toggleCheckboxInMarkdown(value, index, checked) ==
  LET lines == split(value, "\n")
      S == toggleLoop([lines |-> lines, checkboxCount |-> 0, done |-> FALSE],
                      1, index, checked)
  IN  join(S.lines, "\n")

\* setContent(content), on the empty editor
CbSetContent(c) ==
  /\ cbValue = <<>>
  /\ ~cbCall.made
  /\ cbValue' = c
  /\ cbModified' = TRUE
  /\ cbCall' = NoToggle
  /\ UNCHANGED cbPending
  /\ UNCHANGED <<earlyVars, notCb>>

\* the change listener of the preview checkbox at position index: the
\* markup is rewritten and the input event dispatched, whose listener sets
\* isModified and hands the value to saveHistoryDebounced.  The checkboxes of
\* the preview are those the markdown library renders; their number need not
\* be the number of lines that match the pattern
CheckboxChange(index, checked) ==
  /\ cbValue' = toggleCheckboxInMarkdown(cbValue, index, checked)
  /\ cbModified' = TRUE
  /\ cbPending' = <<cbValue'>>
  /\ cbCall' = [made |-> TRUE, index |-> index, checked |-> checked, before |-> cbValue]
  /\ UNCHANGED <<earlyVars, notCb>>

NextCheckbox ==
  \/ \E c \in CbContents : CbSetContent(c)
  \/ \E index \in 0 .. MaxCbLines, checked \in BOOLEAN : CheckboxChange(index, checked)

SpecCheckbox == Init /\ [][NextCheckbox]_vars

\* the lines before and after the latest toggle, the lines that matched the
\* pattern before it, and the one of them with index matching lines above it
LinesBefore == split(cbCall.before, "\n")

LinesAfter == split(cbValue, "\n")

MatchingBefore == {i \in DOMAIN LinesBefore : matchCheckbox(LinesBefore[i]) # 0}

TargetLines ==
  {i \in MatchingBefore :
     Cardinality({m \in MatchingBefore : m < i}) = cbCall.index}

\* line a is line b with the token at place j set as requested
TokenSet(a, b, j, checked) ==
  /\ Len(a) = Len(b)
  /\ a[j + 1] = (IF checked THEN "x" ELSE " ")
  /\ \A n \in DOMAIN a : n # j + 1 => a[n] = b[n]

\* C29: toggling the preview checkbox at ordinal position k changes at most
\* one line of the source markup, namely the k-th line (counting from 0) that
\* matches the checkbox list-item pattern, whose token is set to checked or
\* unchecked as requested; every other line is left unchanged, and if fewer
\* than k + 1 such lines exist the content is unchanged
C29_ToggleChangesOnlyKthCheckbox ==
  cbCall.made =>
    /\ Len(LinesAfter) = Len(LinesBefore)
    /\ TargetLines = {} => cbValue = cbCall.before
    /\ \A i \in DOMAIN LinesBefore :
         IF i \in TargetLines
           THEN TokenSet(LinesAfter[i], LinesBefore[i],
                         matchCheckbox(LinesBefore[i]), cbCall.checked)
           ELSE LinesAfter[i] = LinesBefore[i]

\* C29 witness: the second checkbox was toggled in a content whose second
\* matching line follows a line that does not match, and the line changed
C29_Witness ==
  /\ cbCall.made
  /\ cbCall.index = 1
  /\ \E i \in TargetLines :
       /\ \E m \in 1 .. i - 1 : m \notin MatchingBefore
       /\ LinesAfter[i] # LinesBefore[i]

====
